---- MODULE Spec2Model ----
(***************************************************************************)
(* Verification model of the Hyperliquid analytics backend.                *)
(*                                                                         *)
(* Part I   AnalyticsEngine event processing (api_server.py) together with *)
(*          the trackers it drives: TradeFlowTracker, LiquidationsDetector,*)
(*          SessionContextTracker, PriceMomentumTracker, DepthDecayTracker *)
(*          and the 1m candle accumulator / CandleAggregator history.      *)
(*                                                                         *)
(* Times are integer milliseconds, prices and sizes are integers (the      *)
(* source uses floats; every input of the model is exactly representable   *)
(* and book prices are even so that the mid (bid + ask) / 2 is exact).     *)
(* Python's None is modelled by the integer None == -1 for numeric fields. *)
(***************************************************************************)
EXTENDS Integers, Sequences, FiniteSets, TLC

\* ------------------------------------------------------------------------
\* Bounds of the model
\* ------------------------------------------------------------------------
\* number of events handed to AnalyticsEngine.process_event in one run
MaxEvents == 3

\* ------------------------------------------------------------------------
\* Program constants
\* ------------------------------------------------------------------------
None == -1
CandleMs == 60000
SessionDurationMs == 86400000
VwapWindowMs == 86400000
TradeMaxHistoryMs == 900000
LiqMaxHistoryMs == 900000
MarketMaxHistoryMs == 900000
CascadeWindowMs == 5000
CascadeMinCount == 5
LargeTradeThreshold == 10000
MaxHistory == 500
MaxMessageTimestamps == 1000
BookLevels == 20
MomentumRetentionMs == 22000
DepthRetentionMs == 16500
DepthWindowMs == 15000
ShortWindowMs == 5000
LongWindowMs == 20000

VARIABLES
    orderbook,                  \* AnalyticsEngine.orderbook
    last_orderbook_update_time, \* AnalyticsEngine.last_orderbook_update_time
    trade_tracker,              \* TradeFlowTracker: [trades]
    momentum_tracker,           \* PriceMomentumTracker: [price_history]
    depth_tracker,              \* DepthDecayTracker: [snapshots]
    liq_detector,               \* LiquidationsDetector: [recent_trades, suspected_liquidations]
    session_tracker,            \* SessionContextTracker: [session_start_ms, daily_high, daily_low, current_price, trades]
    current_candle,             \* AnalyticsEngine.current_candle_*: the in-progress 1m candle
    candles_1m,                 \* CandleAggregator.candles_1m
    counters,                   \* event_count, orderbook_updates, trade_events, market_context_updates
    message_timestamps,         \* AnalyticsEngine.message_timestamps
    now,                        \* the wall clock, time.time() * 1000
    ev,                         \* the last event handed to process_event
    observed,                   \* since session_start_ms was set: [prices] given to the session tracker, [backfill] range injected
    trade_log,                  \* the trades _process_trades accepted, in order of arrival
    event_times                 \* the clock at every call of process_event, in order

engineVars == <<orderbook, last_orderbook_update_time, trade_tracker, momentum_tracker,
                depth_tracker, liq_detector, session_tracker, current_candle, candles_1m,
                counters, message_timestamps, now, ev, observed, trade_log, event_times>>

\* one streaming session (Part II)
VARIABLES
    next_id,        \* wire number of the next raw item the transport delivers
    stream_pc,      \* position of the stream thread in connect_and_subscribe / feed_raw_message
    msg,            \* the raw message the stream thread holds
    pending,        \* parsed events of msg not yet appended by _buffer.extend
    buffer,         \* HyperliquidClient._buffer
    closed,         \* HyperliquidClient._closed
    transport_closed, \* the transport has been closed or has ended
    ingest_pc,      \* position of the ingest task
    in_hand,        \* the event iter_events has yielded, as a sequence of length <= 1
    apply_idx,      \* index of the next component update of process_event
    emit_pc,        \* position of the emit task
    read_idx,       \* index of the next section get_analytics_data reads
    running,        \* the asyncio task that holds the event loop, or "none"
    applied,        \* per component: the events it has been updated with
    snap,           \* the snapshot under assembly / last assembled
    published,      \* number of snapshots sent to the consumer
    processed,      \* the events handed to process_event, in order
    fed             \* wire numbers of the events of messages accepted by feed_raw_message

sessVars == <<next_id, stream_pc, msg, pending, buffer, closed, transport_closed,
              ingest_pc, in_hand, apply_idx, emit_pc, read_idx, running, applied,
              snap, published, processed, fed>>

\* the assembly of one snapshot by get_analytics_data (Part III)
VARIABLES
    raises,         \* the sections whose computation raises in this call
    has,            \* the inputs that are present: "orderbook", "depth", "market", "candles", "session"
    data,           \* the snapshot returned: section -> "absent" | "ok" | "error"
    assembled       \* get_analytics_data has returned

snapVars == <<raises, has, data, assembled>>

\* shutdown of the client and its transport (Part IV)
VARIABLES
    close_pc,       \* per thread: position in HyperliquidClient.close / HyperliquidSdkTransport
    close_calls,    \* number of client.close() calls issued so far
    stop_event,     \* HyperliquidSdkTransport._stop_event is set
    queued,         \* HyperliquidSdkTransport._queue: the items it holds, oldest first
    sentinels,      \* number of sentinels ever put on the queue
    disconnects,    \* number of invocations of info.disconnect_websocket
    delivered,      \* number of messages the generator has yielded
    cb_pc,          \* position of the SDK's websocket thread in the subscription callback
    cb_msg,         \* number of the message the callback holds
    received,       \* number of messages handed to the callback so far
    after_call,     \* numbers of the messages handed to the callback once close() had been called
    late,           \* numbers of the messages handed to the callback once _closed was set
    yielded         \* numbers of the messages the generator has yielded

queueVars == <<cb_pc, cb_msg, received, after_call, late, yielded>>
closeVars == <<close_pc, close_calls, stop_event, queued, sentinels, disconnects, delivered,
               queueVars>>

\* one call of a pure function (Part V)
VARIABLES
    args,           \* the arguments of the call
    result          \* the value returned, or NoResult before the call

pureVars == <<args, result>>

\* the periodic volume updater of the engine (Part VI); times in seconds
VARIABLES
    hyperliquid_volume,     \* AnalyticsEngine.hyperliquid_24h_volume, _1h_volume, _4h_volume: [h24, h1, h4]
    last_volume_fetch_time, \* AnalyticsEngine.last_volume_fetch_time
    vol_time,               \* time.time() when the updater loop next calls the fetch
    vol_ticks,              \* number of iterations of _volume_update_loop so far
    last_good,              \* per field, the volume its last usable response carried
    vol_ev                  \* the last iteration: the responses given and whether requests were issued

volVars == <<hyperliquid_volume, last_volume_fetch_time, vol_time, vol_ticks, last_good, vol_ev>>

\* the volatility tracker, which get_analytics_data updates (Part VIII)
VARIABLES
    volatility_tracker,     \* VolatilityTracker: [atr_1m_history, atr_5m_history]
    snapshots,              \* number of calls of get_analytics_data so far
    market_tracker          \* MarketIndicatorsTracker: [context_history]

trackVars == <<volatility_tracker, snapshots, market_tracker>>

vars == <<engineVars, sessVars, snapVars, closeVars, pureVars, volVars, trackVars>>

\* everything but one part
exceptEngine == <<sessVars, snapVars, closeVars, pureVars, volVars, trackVars>>
exceptSession == <<engineVars, snapVars, closeVars, pureVars, volVars, trackVars>>
exceptSnapshot == <<engineVars, sessVars, closeVars, pureVars, volVars, trackVars>>
exceptPure == <<engineVars, sessVars, snapVars, closeVars, volVars, trackVars>>
exceptVolume == <<engineVars, sessVars, snapVars, closeVars, pureVars, trackVars>>

\* ------------------------------------------------------------------------
\* Generic helpers
\* ------------------------------------------------------------------------
Max(a, b) == IF a >= b THEN a ELSE b
Min(a, b) == IF a <= b THEN a ELSE b

Last(s) == s[Len(s)]
Front(s) == SubSeq(s, 1, Len(s) - 1)

\* s[:n]
Take(s, n) == SubSeq(s, 1, Min(n, Len(s)))

\* collections.deque(maxlen = n).append(x)
AppendMaxlen(q, x, n) ==
    LET a == Append(q, x)
    IN  IF Len(a) > n THEN SubSeq(a, Len(a) - n + 1, Len(a)) ELSE a

\* while q and q[0].timestamp_ms < cutoff: q.popleft()
RECURSIVE PopleftWhileOld(_, _)
PopleftWhileOld(q, cutoff) ==
    IF q # <<>> /\ Head(q).timestamp_ms < cutoff
    THEN PopleftWhileOld(Tail(q), cutoff)
    ELSE q

\* ------------------------------------------------------------------------
\* TradeFlowTracker
\* ------------------------------------------------------------------------
\* TradeFlowTracker._cleanup_old_trades, at wall-clock time t
TF_cleanup_old_trades(self, t) ==
    IF self.trades = <<>>
    THEN self
    ELSE [self EXCEPT !.trades = PopleftWhileOld(self.trades, t - TradeMaxHistoryMs)]

\* TradeFlowTracker.add_trade
TF_add_trade(self, trade, t) ==
    TF_cleanup_old_trades([self EXCEPT !.trades = Append(self.trades, trade)], t)

\* TradeFlowTracker.get_stats: the state change is the lazy eviction
TF_get_stats(self, t) == TF_cleanup_old_trades(self, t)

\* ------------------------------------------------------------------------
\* LiquidationsDetector
\* ------------------------------------------------------------------------
\* LiquidationsDetector._cleanup_old_data, at wall-clock time t
Liq_cleanup_old_data(self, t) ==
    [self EXCEPT
        !.suspected_liquidations =
            PopleftWhileOld(self.suspected_liquidations, t - LiqMaxHistoryMs),
        !.recent_trades =
            PopleftWhileOld(self.recent_trades, t - CascadeWindowMs * 2)]

\* the loop shared by _detect_cascade and _get_cascade_volume: walk the recent
\* trades from the newest, stop at the first one older than the cutoff, count
\* and sum the trades of the given side
RECURSIVE CascadeScan(_, _, _)
CascadeScan(trades, cutoff, side) ==
    IF trades = <<>> \/ Last(trades).timestamp_ms < cutoff
    THEN [count |-> 0, volume |-> 0]
    ELSE LET rest == CascadeScan(Front(trades), cutoff, side)
         IN  IF Last(trades).side = side
             THEN [count |-> rest.count + 1, volume |-> rest.volume + Last(trades).size_usd]
             ELSE rest

Liq_detect_cascade(self, t_ms, side) ==
    LET r == CascadeScan(self.recent_trades, t_ms - CascadeWindowMs, side)
    IN  r.count >= CascadeMinCount /\ r.volume >= LargeTradeThreshold

Liq_get_cascade_volume(self, t_ms, side) ==
    CascadeScan(self.recent_trades, t_ms - CascadeWindowMs, side).volume

\* a confidence that is not capped at 1
LargeConfidence_uncapped(size_usd) ==
    [num |-> size_usd, den |-> LargeTradeThreshold * 5]

\* confidence = min(size_usd / (threshold * 5), 1.0), kept as the exact
\* fraction num / den: it is 1 exactly when size_usd >= 5 * threshold
LargeConfidence(size_usd) ==
    IF size_usd >= LargeTradeThreshold * 5
    THEN [num |-> 1, den |-> 1]
    ELSE [num |-> size_usd, den |-> LargeTradeThreshold * 5]

\* an add_trade whose cascade check is a second if, not an elif
Liq_add_trade_both(self, timestamp_ms, price, size_usd, side, t) ==
    LET s1 == Liq_cleanup_old_data(
                [self EXCEPT !.recent_trades =
                    Append(self.recent_trades,
                           [timestamp_ms |-> timestamp_ms, price |-> price,
                            size_usd |-> size_usd, side |-> side])], t)
        liq_side == IF side = "sell" THEN "long" ELSE "short"
        s2 == IF size_usd >= LargeTradeThreshold
              THEN [s1 EXCEPT !.suspected_liquidations =
                      Append(s1.suspected_liquidations,
                             [timestamp_ms |-> timestamp_ms, side |-> liq_side,
                              total_volume_usd |-> size_usd, price |-> price,
                              confidence |-> LargeConfidence(size_usd),
                              reason |-> "large"])]
              ELSE s1
    IN  IF Liq_detect_cascade(s1, timestamp_ms, side)
        THEN [s2 EXCEPT !.suspected_liquidations =
                Append(s2.suspected_liquidations,
                       [timestamp_ms |-> timestamp_ms, side |-> liq_side,
                        total_volume_usd |-> Liq_get_cascade_volume(s1, timestamp_ms, side),
                        price |-> price,
                        confidence |-> [num |-> 7, den |-> 10], reason |-> "cascade"])]
        ELSE s2

\* LiquidationsDetector.add_trade, at wall-clock time t
Liq_add_trade(self, timestamp_ms, price, size_usd, side, t) ==
    LET s1 == Liq_cleanup_old_data(
                [self EXCEPT !.recent_trades =
                    Append(self.recent_trades,
                           [timestamp_ms |-> timestamp_ms, price |-> price,
                            size_usd |-> size_usd, side |-> side])], t)
        liq_side == IF side = "sell" THEN "long" ELSE "short"
    IN  IF size_usd >= LargeTradeThreshold
        THEN [s1 EXCEPT !.suspected_liquidations =
                Append(s1.suspected_liquidations,
                       [timestamp_ms |-> timestamp_ms, side |-> liq_side,
                        total_volume_usd |-> size_usd, price |-> price,
                        confidence |-> LargeConfidence(size_usd), reason |-> "large"])]
        ELSE IF Liq_detect_cascade(s1, timestamp_ms, side)
        THEN [s1 EXCEPT !.suspected_liquidations =
                Append(s1.suspected_liquidations,
                       [timestamp_ms |-> timestamp_ms, side |-> liq_side,
                        total_volume_usd |-> Liq_get_cascade_volume(s1, timestamp_ms, side),
                        price |-> price,
                        confidence |-> [num |-> 7, den |-> 10], reason |-> "cascade"])]
        ELSE s1

\* ------------------------------------------------------------------------
\* SessionContextTracker
\* ------------------------------------------------------------------------
\* reset_session that also starts a new VWAP queue
reset_session_clearing(self, timestamp_ms, starting_price) ==
    [self EXCEPT !.session_start_ms = timestamp_ms,
                 !.daily_high = starting_price,
                 !.daily_low = starting_price,
                 !.current_price = starting_price,
                 !.trades = <<>>]

\* SessionContextTracker.reset_session
reset_session(self, timestamp_ms, starting_price) ==
    [self EXCEPT !.session_start_ms = timestamp_ms,
                 !.daily_high = starting_price,
                 !.daily_low = starting_price,
                 !.current_price = starting_price]

\* an "Update extremes" block that never lowers daily_low
Session_update_extremes_high_only(self, price) ==
    [self EXCEPT
        !.daily_high = IF self.daily_high = None \/ price > self.daily_high
                       THEN price ELSE self.daily_high,
        !.daily_low  = IF self.daily_low = None
                       THEN price ELSE self.daily_low,
        !.current_price = price]

\* the "Update extremes" block and the current_price assignment shared by
\* add_trade and update_price
Session_update_extremes(self, price) ==
    [self EXCEPT
        !.daily_high = IF self.daily_high = None \/ price > self.daily_high
                       THEN price ELSE self.daily_high,
        !.daily_low  = IF self.daily_low = None \/ price < self.daily_low
                       THEN price ELSE self.daily_low,
        !.current_price = price]

\* SessionContextTracker._cleanup_old_trades
Session_cleanup_old_trades(self, current_time_ms) ==
    IF self.trades = <<>>
    THEN self
    ELSE [self EXCEPT !.trades =
            PopleftWhileOld(self.trades, current_time_ms - VwapWindowMs)]

\* SessionContextTracker.add_trade
Session_add_trade(self, timestamp_ms, price, size_usd) ==
    LET s1 == IF self.session_start_ms = None
              THEN reset_session(self, timestamp_ms, price) ELSE self
        s2 == IF timestamp_ms - s1.session_start_ms >= SessionDurationMs
              THEN reset_session(s1, timestamp_ms, price) ELSE s1
        s3 == Session_update_extremes(s2, price)
        s4 == [s3 EXCEPT !.trades =
                Append(s3.trades, [timestamp_ms |-> timestamp_ms, price |-> price,
                                   size_usd |-> size_usd])]
    IN  Session_cleanup_old_trades(s4, timestamp_ms)

\* SessionContextTracker.update_price
Session_update_price(self, timestamp_ms, price) ==
    LET s1 == IF self.session_start_ms = None
              THEN reset_session(self, timestamp_ms, price) ELSE self
    IN  Session_update_extremes(s1, price)

\* the two sums of SessionContextTracker._calculate_vwap
RECURSIVE VwapNotional(_)
VwapNotional(trades) ==
    IF trades = <<>> THEN 0
    ELSE Head(trades).price * Head(trades).size_usd + VwapNotional(Tail(trades))
RECURSIVE VwapVolume(_)
VwapVolume(trades) ==
    IF trades = <<>> THEN 0 ELSE Head(trades).size_usd + VwapVolume(Tail(trades))

\* SessionContextTracker._calculate_vwap, as a fraction; absent (Python None)
\* without trades or without volume
NoVwap == [present |-> FALSE]
Session_calculate_vwap(trades) ==
    IF trades = <<>> \/ VwapVolume(trades) = 0
    THEN NoVwap
    ELSE [present |-> TRUE, num |-> VwapNotional(trades), den |-> VwapVolume(trades)]

NoContext == [present |-> FALSE]

\* SessionContextTracker.get_context: session_vwap over the whole trades
\* queue, falling back to current_price, and the session volume
get_context(self) ==
    IF \/ self.current_price = None \/ self.daily_high = None \/ self.daily_low = None
       \/ self.session_start_ms = None
    THEN NoContext
    ELSE LET vwap == Session_calculate_vwap(self.trades)
         IN  [present |-> TRUE,
              daily_high |-> self.daily_high,
              daily_low |-> self.daily_low,
              current_price |-> self.current_price,
              session_vwap |-> IF ~vwap.present
                               THEN [num |-> self.current_price, den |-> 1]
                               ELSE [num |-> vwap.num, den |-> vwap.den],
              session_volume_usd |-> VwapVolume(self.trades),
              session_start_ms |-> self.session_start_ms]

\* ------------------------------------------------------------------------
\* PriceMomentumTracker and DepthDecayTracker (the append paths)
\* ------------------------------------------------------------------------
\* PriceMomentumTracker._cleanup_old_prices, at wall-clock time t
Momentum_cleanup_old_prices(self, t) ==
    IF self.price_history = <<>>
    THEN self
    ELSE [self EXCEPT !.price_history =
            PopleftWhileOld(self.price_history, t - MomentumRetentionMs)]

\* PriceMomentumTracker.add_price
Momentum_add_price(self, price, timestamp_ms, t) ==
    Momentum_cleanup_old_prices(
        [self EXCEPT !.price_history =
            Append(self.price_history, [timestamp_ms |-> timestamp_ms, price |-> price])], t)

\* DepthDecayTracker._cleanup_old_snapshots, at wall-clock time t
Depth_cleanup_old_snapshots(self, t) ==
    IF self.snapshots = <<>>
    THEN self
    ELSE [self EXCEPT !.snapshots =
            PopleftWhileOld(self.snapshots, t - DepthRetentionMs)]

\* DepthDecayTracker.add_snapshot
Depth_add_snapshot(self, bid_depth_usd, ask_depth_usd, timestamp_ms, t) ==
    Depth_cleanup_old_snapshots(
        [self EXCEPT !.snapshots =
            Append(self.snapshots, [timestamp_ms |-> timestamp_ms,
                                    bid_depth_usd |-> bid_depth_usd,
                                    ask_depth_usd |-> ask_depth_usd])], t)

\* the first element of q with timestamp_ms >= window_start_ms, as a
\* sequence of length <= 1
RECURSIVE FirstInWindow(_, _)
FirstInWindow(q, window_start_ms) ==
    IF q = <<>> THEN <<>>
    ELSE IF Head(q).timestamp_ms >= window_start_ms THEN <<Head(q)>>
    ELSE FirstInWindow(Tail(q), window_start_ms)

\* (reference - current) / reference * 100, or 0.0 without a reference depth
decay_percent(reference, current) ==
    IF reference > 0
    THEN [num |-> (reference - current) * 100, den |-> reference]
    ELSE [num |-> 0, den |-> 1]

\* DepthDecayStats.bid_status / ask_status
decay_status(decay) ==
    IF decay.num > 30 * decay.den THEN "Critical"
    ELSE IF decay.num > 15 * decay.den THEN "High"
    ELSE IF decay.num > 5 * decay.den THEN "Medium"
    ELSE "OK"

NoDecayStats == [present |-> FALSE]

\* DepthDecayTracker.get_decay_stats at wall-clock time t, after its cleanup
get_decay_stats(self, t) ==
    LET snaps == Depth_cleanup_old_snapshots(self, t).snapshots
        reference == FirstInWindow(snaps, t - DepthWindowMs)
    IN  IF Len(snaps) < 2 \/ reference = <<>>
        THEN NoDecayStats
        ELSE LET ref == reference[1]
                 cur == snaps[Len(snaps)]
                 bid_decay_percent == decay_percent(ref.bid_depth_usd, cur.bid_depth_usd)
                 ask_decay_percent == decay_percent(ref.ask_depth_usd, cur.ask_depth_usd)
             IN  [present |-> TRUE,
                  bid_decay_percent |-> bid_decay_percent,
                  ask_decay_percent |-> ask_decay_percent,
                  current_bid_depth |-> cur.bid_depth_usd,
                  current_ask_depth |-> cur.ask_depth_usd,
                  reference_bid_depth |-> ref.bid_depth_usd,
                  reference_ask_depth |-> ref.ask_depth_usd,
                  bid_status |-> decay_status(bid_decay_percent),
                  ask_status |-> decay_status(ask_decay_percent)]

\* ------------------------------------------------------------------------
\* OrderBook
\* ------------------------------------------------------------------------
NoOrderBook == [present |-> FALSE, bids |-> <<>>, asks |-> <<>>, timestamp_ms |-> None]

\* the loop of _process_orderbook over event.bids[:20] / event.asks[:20]:
\* keep the levels with price > 0 and size > 0, in order
RECURSIVE ValidLevels(_)
ValidLevels(levels) ==
    IF levels = <<>> THEN <<>>
    ELSE LET l == Head(levels)
         IN  IF l.px > 0 /\ l.sz > 0
             THEN <<[price |-> l.px, size |-> l.sz]>> \o ValidLevels(Tail(levels))
             ELSE ValidLevels(Tail(levels))

\* OrderBookSide.cumulative_depth_usd
RECURSIVE SumNotional(_)
SumNotional(levels) ==
    IF levels = <<>> THEN 0
    ELSE Head(levels).price * Head(levels).size + SumNotional(Tail(levels))

cumulative_depth_usd(levels, num_levels) == SumNotional(Take(levels, num_levels))

\* OrderBook.mid_price (None when a side is empty)
mid_price(book) ==
    IF book.bids = <<>> \/ book.asks = <<>>
    THEN None
    ELSE (book.bids[1].price + book.asks[1].price) \div 2

\* OrderBook.spread_absolute (ask - bid; a book with an empty side has none)
spread_absolute(book) == book.asks[1].price - book.bids[1].price

\* OrderBook.spread_bps as a fraction: spread / ((bid + ask) / 2) * 10000
OrderBook_spread_bps(book) ==
    [num |-> 20000 * spread_absolute(book),
     den |-> book.bids[1].price + book.asks[1].price]

\* OrderBook.l1_depth_usd and l5_depth_usd, as <<bid depth, ask depth>>
l1_depth_usd(book) ==
    <<IF book.bids # <<>> THEN book.bids[1].price * book.bids[1].size ELSE 0,
      IF book.asks # <<>> THEN book.asks[1].price * book.asks[1].size ELSE 0>>

l5_depth_usd(book) ==
    <<cumulative_depth_usd(book.bids, 5), cumulative_depth_usd(book.asks, 5)>>

\* an imbalance taken relative to the bid depth alone
imbalance_over_bids(bid_depth, ask_depth) ==
    IF bid_depth + ask_depth = 0
    THEN [num |-> 0, den |-> 1]
    ELSE [num |-> bid_depth - ask_depth, den |-> bid_depth]

\* OrderBook.imbalance, as a fraction
imbalance(bid_depth, ask_depth) ==
    IF bid_depth + ask_depth = 0
    THEN [num |-> 0, den |-> 1]
    ELSE [num |-> bid_depth - ask_depth, den |-> bid_depth + ask_depth]

l1_imbalance(book) == imbalance(l1_depth_usd(book)[1], l1_depth_usd(book)[2])

l5_imbalance(book) == imbalance(l5_depth_usd(book)[1], l5_depth_usd(book)[2])

\* ------------------------------------------------------------------------
\* 1m candle accumulator
\* ------------------------------------------------------------------------
NoCandle == [bucket_ms |-> None, open |-> None, high |-> None, low |-> None,
             close |-> None, volume |-> 0, trades |-> 0]

\* CandleAggregator.add_candle on deque(maxlen = max_history)
add_candle(history, candle) == AppendMaxlen(history, candle, MaxHistory)

\* a finalization that writes the extremes the wrong way round
AsOHLCV_swapped_extremes(cur) ==
    [timestamp_ms |-> cur.bucket_ms, open |-> cur.open, high |-> cur.low,
     low |-> cur.high, close |-> cur.close, volume |-> cur.volume,
     n_trades |-> cur.trades]

\* the OHLCV built from the accumulator when it is finalized
AsOHLCV(cur) ==
    [timestamp_ms |-> cur.bucket_ms, open |-> cur.open, high |-> cur.high,
     low |-> cur.low, close |-> cur.close, volume |-> cur.volume,
     n_trades |-> cur.trades]

\* default of get_candles' count parameter
DefaultCount == 100
\* CandleAggregator.intervals, in minutes
Intervals == {1, 5, 15, 60}

RECURSIVE MaxHigh(_)
MaxHigh(cs) ==
    IF Len(cs) = 1 THEN cs[1].high ELSE Max(cs[1].high, MaxHigh(Tail(cs)))
RECURSIVE MinLow(_)
MinLow(cs) ==
    IF Len(cs) = 1 THEN cs[1].low ELSE Min(cs[1].low, MinLow(Tail(cs)))
RECURSIVE SumVolume(_)
SumVolume(cs) == IF cs = <<>> THEN 0 ELSE cs[1].volume + SumVolume(Tail(cs))
RECURSIVE SumTrades(_)
SumTrades(cs) == IF cs = <<>> THEN 0 ELSE cs[1].n_trades + SumTrades(Tail(cs))

\* aggregate_candles on a non-empty list
aggregate_candles(cs) ==
    [timestamp_ms |-> cs[1].timestamp_ms,
     open |-> cs[1].open,
     high |-> MaxHigh(cs),
     low |-> MinLow(cs),
     close |-> cs[Len(cs)].close,
     volume |-> SumVolume(cs),
     n_trades |-> SumTrades(cs)]

\* bucket_start_ms of a 1m candle for an interval of `minutes`
IntervalBucket(timestamp_ms, minutes) ==
    (((timestamp_ms \div CandleMs) \div minutes) * minutes) * CandleMs

\* one iteration of the grouping loop of get_candles: the candle is added to
\* the current group while its bucket equals group_start_ms; another bucket
\* closes the group
GroupStep(candle, minutes, g) ==
    LET bucket_start_ms == IntervalBucket(candle.timestamp_ms, minutes)
        start == IF g.group_start_ms = None THEN bucket_start_ms ELSE g.group_start_ms
    IN  IF bucket_start_ms = start
        THEN [current_group |-> Append(g.current_group, candle), group_start_ms |-> start,
              aggregated |-> g.aggregated]
        ELSE [current_group |-> <<candle>>, group_start_ms |-> bucket_start_ms,
              aggregated |-> IF g.current_group # <<>>
                             THEN Append(g.aggregated, aggregate_candles(g.current_group))
                             ELSE g.aggregated]

\* the iterations over cs in order; the list is halved so that the recursion
\* stays shallow on a full history
RECURSIVE GroupLoop(_, _, _)
GroupLoop(cs, minutes, g) ==
    IF cs = <<>> THEN g
    ELSE IF Len(cs) = 1 THEN GroupStep(cs[1], minutes, g)
    ELSE LET half == Len(cs) \div 2
             grouped == GroupLoop(SubSeq(cs, 1, half), minutes, g)
         IN  \* the test is always true; it makes TLC evaluate the first half
             \* before it descends into the second
             IF Len(grouped.aggregated) >= 0
             THEN GroupLoop(SubSeq(cs, half + 1, Len(cs)), minutes, grouped)
             ELSE grouped

\* the grouping loop of get_candles and the aggregation of the final group
GroupCandles(cs, minutes, current_group, group_start_ms, aggregated) ==
    LET g == GroupLoop(cs, minutes, [current_group |-> current_group,
                                     group_start_ms |-> group_start_ms,
                                     aggregated |-> aggregated])
    IN  IF g.current_group # <<>>
        THEN Append(g.aggregated, aggregate_candles(g.current_group))
        ELSE g.aggregated

\* list[-count:]
LastN(seq, count) ==
    IF Len(seq) <= count THEN seq ELSE SubSeq(seq, Len(seq) - count + 1, Len(seq))

\* CandleAggregator.get_candles for an interval of `minutes` in Intervals
get_candles(history, minutes, count) ==
    IF minutes = 1
    THEN LastN(history, count)
    ELSE IF history = <<>>
    THEN <<>>
    ELSE LastN(GroupCandles(history, minutes, <<>>, None, <<>>), count)

\* bucket_ms = int(timestamp_ms / 1000 / 60) * 60 * 1000 (timestamps are >= 0)
CandleBucket(timestamp_ms) == (timestamp_ms \div CandleMs) * CandleMs

\* _update_candle whose update branch leaves close at its old value
update_candle_stale_close(cur, history, timestamp_ms, price, size) ==
    LET bucket_ms == CandleBucket(timestamp_ms)
    IN  IF cur.bucket_ms # bucket_ms
        THEN [cur |-> [bucket_ms |-> bucket_ms, open |-> price, high |-> price,
                       low |-> price, close |-> price, volume |-> size, trades |-> 1],
              history |-> IF cur.bucket_ms # None
                          THEN add_candle(history, AsOHLCV(cur))
                          ELSE history]
        ELSE [cur |-> [cur EXCEPT !.high = Max(cur.high, price),
                                  !.low = Min(cur.low, price),
                                  !.volume = cur.volume + size,
                                  !.trades = cur.trades + 1],
              history |-> history]

\* AnalyticsEngine._update_candle: the new accumulator and the new history
update_candle(cur, history, timestamp_ms, price, size) ==
    LET bucket_ms == CandleBucket(timestamp_ms)
    IN  IF cur.bucket_ms # bucket_ms
        THEN [cur |-> [bucket_ms |-> bucket_ms, open |-> price, high |-> price,
                       low |-> price, close |-> price, volume |-> size, trades |-> 1],
              history |-> IF cur.bucket_ms # None
                          THEN add_candle(history, AsOHLCV(cur))
                          ELSE history]
        ELSE [cur |-> [cur EXCEPT !.high = Max(cur.high, price),
                                  !.low = Min(cur.low, price),
                                  !.close = price,
                                  !.volume = cur.volume + size,
                                  !.trades = cur.trades + 1],
              history |-> history]

\* ------------------------------------------------------------------------
\* Candle metrics and the volatility tracker.  An ATR is kept as a fraction
\* [num, den]; realized volatility (a standard deviation of returns) is a
\* function of the same candles and is left out of the metrics.
\* ------------------------------------------------------------------------
AtrPeriod == 14
HistoryWindow == 100
LowThreshold == 33
HighThreshold == 67
MinRegimeHistory == 10
NoMetrics == [present |-> FALSE]

Abs(x) == IF x < 0 THEN 0 - x ELSE x

NoMomentum == [present |-> FALSE]

\* PriceMomentumTracker.get_momentum for a window of window_ms at wall-clock
\* time t, after its cleanup; change_percent is a fraction and the flat
\* threshold is 0.01 percent
get_momentum(self, window_ms, t) ==
    LET history == Momentum_cleanup_old_prices(self, t).price_history
        start == FirstInWindow(history, t - window_ms)
    IN  IF history = <<>> \/ start = <<>>
        THEN NoMomentum
        ELSE LET start_price == start[1].price
                 latest_point == history[Len(history)]
                 change == (latest_point.price - start_price) * 100
                 oldest_in_window_ms == history[1].timestamp_ms
                 data_duration_ms == latest_point.timestamp_ms - oldest_in_window_ms
             IN  [present |-> TRUE,
                  direction |-> IF start_price = 0 \/ Abs(change) * 100 < Abs(start_price)
                                THEN "flat"
                                ELSE IF (change > 0) = (start_price > 0) THEN "up"
                                ELSE "down",
                  latest_price |-> latest_point.price,
                  start_price |-> start_price,
                  latest_timestamp_ms |-> latest_point.timestamp_ms,
                  is_usable |-> data_duration_ms * 2 >= window_ms]

\* tr of candles[i] against the close of candles[i-1]
TrueRange(candle, prev_close) ==
    Max(Max(candle.high - candle.low, Abs(candle.high - prev_close)),
        Abs(candle.low - prev_close))

\* the loop of _calculate_atr: one true range for every candle but the first
TrueRanges(candles) ==
    [i \in 1..(Len(candles) - 1) |-> TrueRange(candles[i + 1], candles[i].close)]

RECURSIVE SumRanges(_)
SumRanges(trs) == IF trs = <<>> THEN 0 ELSE trs[1] + SumRanges(Tail(trs))

\* CandleAggregator._calculate_atr
calculate_atr(candles, period) ==
    IF Len(candles) < period + 1
    THEN [num |-> 0, den |-> 1]
    ELSE LET true_ranges == TrueRanges(candles)
         IN  IF Len(true_ranges) >= period
             THEN [num |-> SumRanges(LastN(true_ranges, period)), den |-> period]
             ELSE IF true_ranges # <<>>
             THEN [num |-> SumRanges(true_ranges), den |-> Len(true_ranges)]
             ELSE [num |-> 0, den |-> 1]

\* CandleAggregator.get_metrics for an interval of `minutes`: None with fewer
\* than two candles, else the current candle and the ATR
get_metrics(history, minutes) ==
    LET candles == get_candles(history, minutes, DefaultCount)
    IN  IF Len(candles) < 2
        THEN NoMetrics
        ELSE [present |-> TRUE, current_candle |-> candles[Len(candles)],
              atr |-> calculate_atr(candles, AtrPeriod)]

\* a <= b for fractions with positive denominators
FracLeq(a, b) == a.num * b.den <= b.num * a.den

\* a regime detection whose low threshold is exclusive
detect_regime_strict(current_value, history) ==
    IF Len(history) < MinRegimeHistory
    THEN [regime |-> "normal", percentile |-> [num |-> 50, den |-> 1]]
    ELSE LET rank == Cardinality({i \in 1..Len(history) : FracLeq(history[i], current_value)})
             n == Len(history)
         IN  [regime |-> IF rank * 100 < LowThreshold * n THEN "low"
                         ELSE IF rank * 100 >= HighThreshold * n THEN "high"
                         ELSE "normal",
              percentile |-> [num |-> rank * 100, den |-> n]]

\* VolatilityTracker._detect_regime: the percentile is rank / len * 100
detect_regime(current_value, history) ==
    IF Len(history) < MinRegimeHistory
    THEN [regime |-> "normal", percentile |-> [num |-> 50, den |-> 1]]
    ELSE LET rank == Cardinality({i \in 1..Len(history) : FracLeq(history[i], current_value)})
             n == Len(history)
         IN  [regime |-> IF rank * 100 <= LowThreshold * n THEN "low"
                         ELSE IF rank * 100 >= HighThreshold * n THEN "high"
                         ELSE "normal",
              percentile |-> [num |-> rank * 100, den |-> n]]

\* a tracker that appends and never trims its histories
calculate_metrics_untrimmed(self, atr_1m, atr_5m) ==
    LET h1 == Append(self.atr_1m_history, atr_1m)
        h5 == Append(self.atr_5m_history, atr_5m)
        d == detect_regime(atr_5m, h5)
    IN  [self |-> [atr_1m_history |-> h1, atr_5m_history |-> h5],
         metrics |-> [atr_1m |-> atr_1m, atr_5m |-> atr_5m, regime |-> d.regime,
                      percentile |-> d.percentile]]

\* VolatilityTracker.calculate_metrics: the tracker after the call and the
\* metrics returned
calculate_metrics(self, atr_1m, atr_5m) ==
    LET a1 == Append(self.atr_1m_history, atr_1m)
        a5 == Append(self.atr_5m_history, atr_5m)
        h1 == IF Len(a1) > HistoryWindow THEN LastN(a1, HistoryWindow) ELSE a1
        h5 == IF Len(a5) > HistoryWindow THEN LastN(a5, HistoryWindow) ELSE a5
        d == detect_regime(atr_5m, h5)
    IN  [self |-> [atr_1m_history |-> h1, atr_5m_history |-> h5],
         metrics |-> [atr_1m |-> atr_1m, atr_5m |-> atr_5m, regime |-> d.regime,
                      percentile |-> d.percentile]]

\* ------------------------------------------------------------------------
\* Inputs of the engine model
\* ------------------------------------------------------------------------
\* exchange timestamps of events: the first and the last millisecond of one
\* minute, and the first and the last millisecond of the minute that starts
\* exactly one session (24 h) later
EventTimes == {0, 59999, 86400000, 86459999}
\* wall-clock instants at which the engine runs: 930 s after the start every
\* trade of the first minute but the last is older than the 900 s history
ClockTimes == {0, 930000}

TradePrices == {-100, 0, 100, 10000}
TradeSizes == {0, 1}
WireSides == {"B", "A"}

\* TradeEvent inputs; the events the engine rejects are enumerated at one
\* instant and one side only, because neither is looked at for them
TradeEvents ==
    {e \in [time_ms : EventTimes, px : TradePrices, sz : TradeSizes, side : WireSides] :
        (e.px <= 0 \/ e.sz <= 0) =>
            (e.time_ms = 0 /\ e.side = "B" /\ (e.sz <= 0 => e.px = 100))}

\* a side of 21 levels, one more than the engine reads
DeepAsks == [i \in 1..(BookLevels + 1) |-> [px |-> 200 + 2 * i, sz |-> 1]]

\* OrderBookSnapshot inputs: a one-level book now and one session later, a
\* two-level book with another mid, a book with an empty bid side, a book
\* whose bid side holds only an invalid level, a book with an invalid level
\* and 21 asks
BookEvents ==
    { [time_ms |-> t, bids |-> <<[px |-> 100, sz |-> 1]>>,
       asks |-> <<[px |-> 102, sz |-> 1]>>] : t \in {0, 86400000} }
    \cup
    { [time_ms |-> 0, bids |-> <<[px |-> 104, sz |-> 2], [px |-> 100, sz |-> 1]>>,
       asks |-> <<[px |-> 108, sz |-> 1]>>],
      [time_ms |-> 0, bids |-> <<>>, asks |-> <<[px |-> 102, sz |-> 1]>>],
      [time_ms |-> 0, bids |-> <<[px |-> 100, sz |-> 0]>>,
       asks |-> <<[px |-> 102, sz |-> 1]>>],
      [time_ms |-> 0, bids |-> <<[px |-> 0, sz |-> 1], [px |-> 100, sz |-> 3]>>,
       asks |-> DeepAsks] }

NoEvent == [kind |-> "init", time_ms |-> None, px |-> 0, sz |-> 0, side |-> "",
            bids |-> <<>>, asks |-> <<>>]

\* ------------------------------------------------------------------------
\* AnalyticsEngine
\* ------------------------------------------------------------------------
VolumeUpdateInterval == 60

\* the volume fields of AnalyticsEngine.__init__; the updater has not run and
\* the clock is past one interval
VolumeInit ==
    /\ hyperliquid_volume = [h24 |-> None, h1 |-> None, h4 |-> None]
    /\ last_volume_fetch_time = 0
    /\ vol_time = VolumeUpdateInterval
    /\ vol_ticks = 0
    /\ last_good = [h24 |-> None, h1 |-> None, h4 |-> None]
    /\ vol_ev = [attempted |-> FALSE, meta |-> "none", h1 |-> "none", h4 |-> "none"]

\* VolatilityTracker.__init__, and no snapshot taken yet
TrackerInit ==
    /\ volatility_tracker = [atr_1m_history |-> <<>>, atr_5m_history |-> <<>>]
    /\ snapshots = 0
    /\ market_tracker = [context_history |-> <<>>]

EngineInit ==
    /\ VolumeInit
    /\ TrackerInit
    /\ orderbook = NoOrderBook
    /\ last_orderbook_update_time = None
    /\ trade_tracker = [trades |-> <<>>]
    /\ momentum_tracker = [price_history |-> <<>>]
    /\ depth_tracker = [snapshots |-> <<>>]
    /\ liq_detector = [recent_trades |-> <<>>, suspected_liquidations |-> <<>>]
    /\ session_tracker = [session_start_ms |-> None, daily_high |-> None,
                          daily_low |-> None, current_price |-> None, trades |-> <<>>]
    /\ current_candle = NoCandle
    /\ candles_1m = <<>>
    /\ counters = [event_count |-> 0, orderbook_updates |-> 0, trade_events |-> 0,
                   market_context_updates |-> 0]
    /\ message_timestamps = <<>>
    /\ now \in {0}
    /\ ev = NoEvent
    /\ observed = [prices |-> {}, backfill |-> {}]
    /\ trade_log = <<>>
    /\ event_times = <<>>

\* the prices observed since the session started, after the session tracker
\* went from state self to state next on price
Observe(self, next, price) ==
    IF next.session_start_ms # self.session_start_ms
    THEN [prices |-> {price}, backfill |-> {}]
    ELSE [observed EXCEPT !.prices = @ \cup {price}]

\* the head of process_event: event_count += 1, message_timestamps.append(time.time())
CountEvent(kind) ==
    /\ counters' = [counters EXCEPT !.event_count = @ + 1, ![kind] = @ + 1]
    /\ message_timestamps' = AppendMaxlen(message_timestamps, now, MaxMessageTimestamps)
    /\ event_times' = Append(event_times, now)

RateWindowMs == 60000
RateShortWindowMs == 10000

\* sum(1 for ts in timestamps if ts >= cutoff)
CountSince(timestamps, cutoff) ==
    Cardinality({i \in 1..Len(timestamps) : timestamps[i] >= cutoff})

\* AnalyticsEngine.get_message_rate at wall-clock time t (the counts)
get_message_rate(timestamps, event_count, t) ==
    [messages_per_minute |-> CountSince(timestamps, t - RateWindowMs),
     messages_last_10s |-> CountSince(timestamps, t - RateShortWindowMs),
     total_messages |-> event_count]

\* a guard that checks the price only
TradeAccepted_price_only(price, size) == price > 0

\* the guard of _process_trades
TradeAccepted(price, size) == price > 0 /\ size > 0

\* process_event on a TradeEvent: _process_trades, then trade_events += 1
ProcessTradeEvent(e) ==
    LET price == e.px
        size == e.sz
        side == IF e.side = "B" THEN "buy" ELSE "sell"
        timestamp_ms == e.time_ms
        size_usd == price * size
        c == update_candle(current_candle, candles_1m, timestamp_ms, price, size)
    IN  /\ CountEvent("trade_events")
        /\ ev' = [NoEvent EXCEPT !.kind = "trade", !.time_ms = e.time_ms, !.px = e.px,
                                 !.sz = e.sz, !.side = e.side]
        /\ IF TradeAccepted(price, size)
           THEN /\ trade_tracker' =
                      TF_add_trade(trade_tracker,
                                   [timestamp_ms |-> timestamp_ms, price |-> price,
                                    size |-> size, side |-> side], now)
                /\ liq_detector' = Liq_add_trade(liq_detector, timestamp_ms, price,
                                                 size_usd, side, now)
                /\ session_tracker' = Session_add_trade(session_tracker, timestamp_ms,
                                                        price, size_usd)
                /\ observed' = Observe(session_tracker, session_tracker', price)
                /\ current_candle' = c.cur
                /\ candles_1m' = c.history
                /\ trade_log' = Append(trade_log,
                                       [timestamp_ms |-> timestamp_ms, side |-> side,
                                        size_usd |-> size_usd])
           ELSE UNCHANGED <<trade_tracker, liq_detector, session_tracker,
                            current_candle, candles_1m, observed, trade_log>>
        /\ UNCHANGED <<orderbook, last_orderbook_update_time, momentum_tracker,
                       depth_tracker, now>>
        /\ UNCHANGED exceptEngine

\* process_event on an OrderBookSnapshot: _process_orderbook, then orderbook_updates += 1
ProcessOrderBookEvent(e) ==
    LET timestamp_ms == e.time_ms
        bid_levels == ValidLevels(Take(e.bids, BookLevels))
        ask_levels == ValidLevels(Take(e.asks, BookLevels))
        book == [present |-> TRUE, bids |-> bid_levels, asks |-> ask_levels,
                 timestamp_ms |-> timestamp_ms]
        mid == mid_price(book)
    IN  /\ CountEvent("orderbook_updates")
        /\ ev' = [NoEvent EXCEPT !.kind = "book", !.time_ms = e.time_ms,
                                 !.bids = e.bids, !.asks = e.asks]
        /\ IF bid_levels # <<>> /\ ask_levels # <<>>
           THEN /\ orderbook' = book
                /\ last_orderbook_update_time' = now
                /\ IF mid # None /\ mid # 0
                   THEN /\ momentum_tracker' =
                              Momentum_add_price(momentum_tracker, mid, timestamp_ms, now)
                        /\ session_tracker' =
                              Session_update_price(session_tracker, timestamp_ms, mid)
                        /\ observed' = Observe(session_tracker, session_tracker', mid)
                   ELSE UNCHANGED <<momentum_tracker, session_tracker, observed>>
                /\ depth_tracker' =
                      Depth_add_snapshot(depth_tracker,
                                         cumulative_depth_usd(bid_levels, 5),
                                         cumulative_depth_usd(ask_levels, 5),
                                         timestamp_ms, now)
           ELSE UNCHANGED <<orderbook, last_orderbook_update_time, momentum_tracker,
                            session_tracker, depth_tracker, observed>>
        /\ UNCHANGED <<trade_tracker, liq_detector, current_candle, candles_1m, now,
                       trade_log>>
        /\ UNCHANGED exceptEngine

\* MarketIndicatorsTracker._cleanup_old_contexts, at wall-clock time t
Market_cleanup_old_contexts(self, t) ==
    [self EXCEPT !.context_history =
        PopleftWhileOld(self.context_history, t - MarketMaxHistoryMs)]

\* MarketIndicatorsTracker.add_context, at wall-clock time t
Market_add_context(self, context, t) ==
    Market_cleanup_old_contexts(
        [self EXCEPT !.context_history = Append(self.context_history, context)], t)

\* the head of process_event alone, for an event that reaches no per-kind
\* counter
CountOnly ==
    /\ counters' = [counters EXCEPT !.event_count = @ + 1]
    /\ message_timestamps' = AppendMaxlen(message_timestamps, now, MaxMessageTimestamps)
    /\ event_times' = Append(event_times, now)

\* PerpAssetContext inputs: two open interests, and a mark price or an oracle
\* price that is None; float(None) raises in _process_market_context
MarketContexts ==
    [open_interest : {1000, 1100}, funding : {1}, mark_px : {100, None},
     oracle_px : {100, None}]

\* a process_event that counts the market context before processing it
ProcessMarketContextEvent_count_first(e) ==
    /\ ev' = [NoEvent EXCEPT !.kind = "context", !.px = e.mark_px]
    /\ CountEvent("market_context_updates")
    /\ IF e.mark_px # None
       THEN market_tracker' =
               Market_add_context(market_tracker,
                                  [timestamp_ms |-> now,
                                   open_interest_usd |-> e.open_interest,
                                   funding_rate |-> e.funding,
                                   mark_price |-> e.mark_px,
                                   oracle_price |-> e.oracle_px], now)
       ELSE UNCHANGED market_tracker
    /\ UNCHANGED <<orderbook, last_orderbook_update_time, trade_tracker, momentum_tracker,
                   depth_tracker, liq_detector, session_tracker, current_candle,
                   candles_1m, now, observed, trade_log>>
    /\ UNCHANGED <<sessVars, snapVars, closeVars, pureVars, volVars, volatility_tracker,
                   snapshots>>

\* process_event on a PerpAssetContext: _process_market_context, then
\* market_context_updates += 1; when float(event.mark_px) raises, the except
\* clause is reached before the tracker or the counter is touched
ProcessMarketContextEvent(e) ==
    /\ ev' = [NoEvent EXCEPT !.kind = "context", !.px = e.mark_px]
    /\ IF e.mark_px # None
       THEN /\ CountEvent("market_context_updates")
            /\ market_tracker' =
                  Market_add_context(market_tracker,
                                     [timestamp_ms |-> now,
                                      open_interest_usd |-> e.open_interest,
                                      funding_rate |-> e.funding,
                                      mark_price |-> e.mark_px,
                                      oracle_price |-> e.oracle_px], now)
       ELSE /\ CountOnly
            /\ UNCHANGED market_tracker
    /\ UNCHANGED <<orderbook, last_orderbook_update_time, trade_tracker, momentum_tracker,
                   depth_tracker, liq_detector, session_tracker, current_candle,
                   candles_1m, now, observed, trade_log>>
    /\ UNCHANGED <<sessVars, snapVars, closeVars, pureVars, volVars, volatility_tracker,
                   snapshots>>

\* process_event on an event of another type (Bbo, CandleEvent): no branch
\* of the if / elif chain is taken
ProcessOtherEvent(kind) ==
    /\ ev' = [NoEvent EXCEPT !.kind = kind]
    /\ CountOnly
    /\ UNCHANGED <<orderbook, last_orderbook_update_time, trade_tracker, momentum_tracker,
                   depth_tracker, liq_detector, session_tracker, current_candle,
                   candles_1m, now, observed, trade_log>>
    /\ UNCHANGED exceptEngine

\* TradeFlowTracker.get_stats called by a snapshot
GetStats ==
    /\ trade_tracker' = TF_get_stats(trade_tracker, now)
    /\ UNCHANGED <<orderbook, last_orderbook_update_time, momentum_tracker, depth_tracker,
                   liq_detector, session_tracker, current_candle, candles_1m, counters,
                   message_timestamps, now, ev, observed, trade_log, event_times>>
    /\ UNCHANGED exceptEngine

\* what the REST backfill can return at startup: the recent 1m candles
\* (n_trades is not available and set to 0) and the current daily candle as
\* (high, low, close); an empty sequence stands for no data or a failed fetch
HistoricalCandles ==
    { <<>>,
      <<[timestamp_ms |-> 0, open |-> 100, high |-> 102, low |-> 100, close |-> 101,
         volume |-> 1, n_trades |-> 0]>>,
      <<[timestamp_ms |-> 0, open |-> 100, high |-> 102, low |-> 100, close |-> 101,
         volume |-> 1, n_trades |-> 0],
        [timestamp_ms |-> 60000, open |-> 101, high |-> 101, low |-> 99, close |-> 100,
         volume |-> 2, n_trades |-> 0]>> }
DailyRanges == { <<>>, <<[high |-> 102, low |-> 100, close |-> 101]>> }

\* add_candle for every fetched candle, in order; the list is halved so that
\* the recursion stays shallow on a full backfill
RECURSIVE AddCandles(_, _)
AddCandles(history, cs) ==
    IF cs = <<>> THEN history
    ELSE IF Len(cs) = 1 THEN add_candle(history, cs[1])
    ELSE LET half == Len(cs) \div 2
             added == AddCandles(history, SubSeq(cs, 1, half))
         IN  \* the test is always true; it makes TLC evaluate the first half
             \* before it descends into the second
             IF Len(added) >= 0
             THEN AddCandles(added, SubSeq(cs, half + 1, Len(cs)))
             ELSE added

\* preload_historical_data, called once on a fresh engine before the stream
\* starts: the fetched 1m candles go to the aggregator, the daily range
\* starts the session at the wall clock and overwrites its extremes
Preload(cs, daily_range) ==
    /\ counters.event_count = 0
    /\ candles_1m = <<>>
    /\ session_tracker.session_start_ms = None
    /\ cs # <<>> \/ daily_range # <<>>
    /\ candles_1m' = AddCandles(candles_1m, cs)
    /\ IF daily_range # <<>>
       THEN LET r == daily_range[1]
            IN  /\ session_tracker' =
                      [reset_session(session_tracker, now, r.close) EXCEPT
                          !.daily_high = r.high, !.daily_low = r.low,
                          !.current_price = r.close]
                /\ observed' = [prices |-> {r.close}, backfill |-> {r.high, r.low}]
       ELSE UNCHANGED <<session_tracker, observed>>
    /\ UNCHANGED <<orderbook, last_orderbook_update_time, trade_tracker, momentum_tracker,
                   depth_tracker, liq_detector, current_candle, counters,
                   message_timestamps, now, ev, trade_log, event_times>>
    /\ UNCHANGED exceptEngine

\* the wall clock advances to one of the given times
TickTo(times) ==
    /\ \E t \in times : t > now /\ now' = t
    /\ UNCHANGED <<orderbook, last_orderbook_update_time, trade_tracker, momentum_tracker,
                   depth_tracker, liq_detector, session_tracker, current_candle,
                   candles_1m, counters, message_timestamps, ev, observed, trade_log,
                   event_times>>
    /\ UNCHANGED exceptEngine

\* the wall clock advances to one of the times of ClockTimes
Tick ==
    /\ \E t \in ClockTimes : t > now /\ now' = t
    /\ UNCHANGED <<orderbook, last_orderbook_update_time, trade_tracker, momentum_tracker,
                   depth_tracker, liq_detector, session_tracker, current_candle,
                   candles_1m, counters, message_timestamps, ev, observed, trade_log,
                   event_times>>
    /\ UNCHANGED exceptEngine

\* ========================================================================
\* Part II  One streaming session (websocket_analytics): the stream thread
\* feeding HyperliquidClient's buffer, and the two asyncio tasks of the
\* session, the ingest task (process_events) and the emit task (the handler's
\* own loop).  The engine is reduced to what each component has been given:
\* applied[c] is the sequence of event numbers component c has been updated
\* with.  Raw items are numbered in wire order.
\* ========================================================================
\* number of raw items (trades, books) the transport delivers in one run
MaxWire == 3
\* largest number of trades in one "trades" message
MaxBatch == 2

Coin == "SOL"
Coins == {"SOL", "BTC"}

Components == {"stats", "orderbook", "trade_flow", "momentum", "depth_decay",
               "liquidations", "candles", "session_context"}

\* the component updates of process_event, in program order
UpdatesOf(type) ==
    IF type = "TradeEvent"
    THEN <<"stats", "trade_flow", "liquidations", "session_context", "candles">>
    ELSE <<"stats", "orderbook", "momentum", "session_context", "depth_decay">>

\* the component queries of get_analytics_data, in program order
ReadOrder == <<"stats", "orderbook", "trade_flow", "momentum", "depth_decay",
               "liquidations", "candles", "session_context">>

NoMessage == [channel |-> "none", data |-> <<>>]

\* raw messages the transport can deliver when the next wire number is n
RawMessages(n) ==
    { [channel |-> "trades", data |-> [i \in 1..Len(cs) |-> [coin |-> cs[i], id |-> n + i - 1]]] :
        cs \in UNION {[1..k -> Coins] : k \in 1..MaxBatch} }
    \cup { [channel |-> "l2Book", data |-> <<[coin |-> c, id |-> n]>>] : c \in Coins }
    \cup { [channel |-> "pong", data |-> <<[coin |-> Coin, id |-> n]>>] }

\* HyperliquidMessageParser._coin_matches
coin_matches(coin) == coin = Coin

\* HyperliquidMessageParser._parse_trades: one TradeEvent per trade of the
\* configured coin, in the order of the message
RECURSIVE parse_trades(_)
parse_trades(trades) ==
    IF trades = <<>> THEN <<>>
    ELSE IF coin_matches(Head(trades).coin)
         THEN <<[type |-> "TradeEvent", id |-> Head(trades).id]>> \o parse_trades(Tail(trades))
         ELSE parse_trades(Tail(trades))

\* HyperliquidMessageParser.parse_message
parse_message(message) ==
    IF message.channel = "l2Book"
    THEN IF coin_matches(message.data[1].coin)
         THEN <<[type |-> "OrderBookSnapshot", id |-> message.data[1].id]>>
         ELSE <<>>
    ELSE IF message.channel = "trades"
    THEN parse_trades(message.data)
    ELSE <<>>

\* taking the newest buffered event instead of the oldest
pop_right(buf) == [item |-> Last(buf), rest |-> Front(buf)]

\* iter_events: self._buffer.popleft()
popleft(buf) == [item |-> Head(buf), rest |-> Tail(buf)]

\* suspension points with an additional await between the component updates
\* of process_event
SuspensionPoint_in_process_event(task, pc) ==
    \/ task = "ingest" /\ pc \in {"start", "sleep", "cancelled", "apply"}
    \/ task = "emit" /\ pc \in {"send", "sleep", "done"}

\* the awaits of the two tasks: the ingest task suspends only in
\* asyncio.sleep(0.01), the emit task in websocket.send_json and asyncio.sleep(1)
SuspensionPoint(task, pc) ==
    \/ task = "ingest" /\ pc \in {"start", "sleep", "cancelled"}
    \/ task = "emit" /\ pc \in {"send", "sleep", "done"}

\* a task may take a step when it holds the loop, or when the loop is free
MayRun(task) == running = task \/ running = "none"

\* after a step to position pc the task keeps the loop unless pc is an await
Holder(task, pc) == IF SuspensionPoint(task, pc) THEN "none" ELSE task

SessionInit ==
    /\ next_id = 1
    /\ stream_pc = "recv"
    /\ msg = NoMessage
    /\ pending = <<>>
    /\ buffer = <<>>
    /\ closed = FALSE
    /\ transport_closed = FALSE
    /\ ingest_pc = "start"
    /\ in_hand = <<>>
    /\ apply_idx = 1
    /\ emit_pc = "read"
    /\ read_idx = 1
    /\ running = "emit"
    /\ applied = [c \in Components |-> <<>>]
    /\ snap = [c \in Components |-> <<>>]
    /\ published = 0
    /\ processed = <<>>
    /\ fed = {}

\* ---- the stream thread: HyperliquidClient.connect_and_subscribe ----
\* for message in self._transport.connect_and_subscribe(...): the transport
\* yields the next raw message, or ends (closed, or the connection died)
StreamRecv ==
    /\ stream_pc = "recv"
    /\ \/ /\ ~transport_closed
          /\ next_id <= MaxWire
          /\ \E m \in RawMessages(next_id) :
                /\ next_id + Len(m.data) - 1 <= MaxWire
                /\ msg' = m
                /\ next_id' = next_id + Len(m.data)
          /\ stream_pc' = "loop_check"
          /\ UNCHANGED transport_closed
       \/ /\ stream_pc' = "done"
          /\ transport_closed' = TRUE
          /\ UNCHANGED <<msg, next_id>>
    /\ UNCHANGED <<pending, buffer, closed, ingest_pc, in_hand, apply_idx, emit_pc,
                   read_idx, running, applied, snap, published, processed, fed>>
    /\ UNCHANGED exceptSession

\* if self._closed: break
StreamLoopCheck ==
    /\ stream_pc = "loop_check"
    /\ stream_pc' = IF closed THEN "done" ELSE "feed_check"
    /\ UNCHANGED <<next_id, msg, pending, buffer, closed, transport_closed, ingest_pc,
                   in_hand, apply_idx, emit_pc, read_idx, running, applied, snap,
                   published, processed, fed>>
    /\ UNCHANGED exceptSession

\* feed_raw_message: if self._closed: return
StreamFeedCheck ==
    /\ stream_pc = "feed_check"
    /\ IF closed
       THEN stream_pc' = "recv" /\ UNCHANGED fed
       ELSE /\ stream_pc' = "parse"
            /\ fed' = fed \cup {msg.data[i].id : i \in
                        {j \in 1..Len(msg.data) :
                            msg.channel \in {"trades", "l2Book"} /\ msg.data[j].coin = Coin}}
    /\ UNCHANGED <<next_id, msg, pending, buffer, closed, transport_closed, ingest_pc,
                   in_hand, apply_idx, emit_pc, read_idx, running, applied, snap,
                   published, processed>>
    /\ UNCHANGED exceptSession

\* events = self._parser.parse_message(message)
StreamParse ==
    /\ stream_pc = "parse"
    /\ pending' = parse_message(msg)
    /\ stream_pc' = "extend"
    /\ UNCHANGED <<next_id, msg, buffer, closed, transport_closed, ingest_pc, in_hand,
                   apply_idx, emit_pc, read_idx, running, applied, snap, published,
                   processed, fed>>
    /\ UNCHANGED exceptSession

\* self._buffer.extend(events): the events are appended one after another
StreamExtend ==
    /\ stream_pc = "extend"
    /\ IF pending = <<>>
       THEN stream_pc' = "recv" /\ UNCHANGED <<buffer, pending>>
       ELSE /\ buffer' = Append(buffer, Head(pending))
            /\ pending' = Tail(pending)
            /\ UNCHANGED stream_pc
    /\ UNCHANGED <<next_id, msg, closed, transport_closed, ingest_pc, in_hand,
                   apply_idx, emit_pc, read_idx, running, applied, snap, published,
                   processed, fed>>
    /\ UNCHANGED exceptSession

\* ---- the ingest task: process_events ----
\* for event in iter_events(): "while self._buffer" of the generator, entered
\* when the task is first scheduled, after a processed event, or when the
\* sleep is over; an empty buffer ends the for loop and the task awaits
\* asyncio.sleep(0.01)
IngestIter ==
    /\ ingest_pc \in {"start", "iter", "sleep"}
    /\ MayRun("ingest")
    /\ LET pc == IF buffer # <<>> THEN "pop" ELSE "sleep"
       IN  ingest_pc' = pc /\ running' = Holder("ingest", pc)
    /\ UNCHANGED <<next_id, stream_pc, msg, pending, buffer, closed, transport_closed,
                   in_hand, apply_idx, emit_pc, read_idx, applied, snap, published,
                   processed, fed>>
    /\ UNCHANGED exceptSession

\* yield self._buffer.popleft(); the event is handed to process_event
IngestPop ==
    /\ ingest_pc = "pop"
    /\ MayRun("ingest")
    /\ LET r == popleft(buffer)
       IN  /\ buffer' = r.rest
           /\ in_hand' = <<r.item>>
           /\ processed' = Append(processed, r.item)
    /\ apply_idx' = 1
    /\ ingest_pc' = "apply"
    /\ running' = Holder("ingest", "apply")
    /\ UNCHANGED <<next_id, stream_pc, msg, pending, closed, transport_closed, emit_pc,
                   read_idx, applied, snap, published, fed>>
    /\ UNCHANGED exceptSession

\* process_event(event): one component update after another
IngestApply ==
    /\ ingest_pc = "apply"
    /\ MayRun("ingest")
    /\ LET e == in_hand[1]
           ups == UpdatesOf(e.type)
           c == ups[apply_idx]
           pc == IF apply_idx = Len(ups) THEN "iter" ELSE "apply"
       IN  /\ applied' = [applied EXCEPT ![c] = Append(@, e.id)]
           /\ apply_idx' = IF apply_idx = Len(ups) THEN 1 ELSE apply_idx + 1
           /\ in_hand' = IF apply_idx = Len(ups) THEN <<>> ELSE in_hand
           /\ ingest_pc' = pc
           /\ running' = Holder("ingest", pc)
    /\ UNCHANGED <<next_id, stream_pc, msg, pending, buffer, closed, transport_closed,
                   emit_pc, read_idx, snap, published, processed, fed>>
    /\ UNCHANGED exceptSession

\* ---- the emit task: the loop of websocket_analytics ----
\* data = get_analytics_data(): one component query after another
EmitRead ==
    /\ emit_pc \in {"read", "sleep"}
    /\ MayRun("emit")
    /\ LET i == IF emit_pc = "sleep" THEN 1 ELSE read_idx
           c == ReadOrder[i]
           pc == IF i = Len(ReadOrder) THEN "send" ELSE "read"
       IN  /\ snap' = [snap EXCEPT ![c] = applied[c]]
           /\ read_idx' = IF i = Len(ReadOrder) THEN 1 ELSE i + 1
           /\ emit_pc' = pc
           /\ running' = Holder("emit", pc)
    /\ UNCHANGED <<next_id, stream_pc, msg, pending, buffer, closed, transport_closed,
                   ingest_pc, in_hand, apply_idx, applied, published, processed, fed>>
    /\ UNCHANGED exceptSession

\* await websocket.send_json(data) returns, the task awaits asyncio.sleep(1);
\* the count of sent snapshots stops at MaxWire + 1
EmitSend ==
    /\ emit_pc = "send"
    /\ MayRun("emit")
    /\ published' = IF published < MaxWire + 1 THEN published + 1 ELSE published
    /\ emit_pc' = "sleep"
    /\ running' = Holder("emit", "sleep")
    /\ UNCHANGED <<next_id, stream_pc, msg, pending, buffer, closed, transport_closed,
                   ingest_pc, in_hand, apply_idx, read_idx, applied, snap, processed, fed>>
    /\ UNCHANGED exceptSession

\* the consumer disconnects: send_json raises, the finally block cancels the
\* ingest task (it is suspended or was never started) and closes the client,
\* which closes the transport
EmitTeardown ==
    /\ emit_pc = "send"
    /\ MayRun("emit")
    /\ ingest_pc' = "cancelled"
    /\ closed' = TRUE
    /\ transport_closed' = TRUE
    /\ emit_pc' = "done"
    /\ running' = Holder("emit", "done")
    /\ UNCHANGED <<next_id, stream_pc, msg, pending, buffer, in_hand, apply_idx,
                   read_idx, applied, snap, published, processed, fed>>
    /\ UNCHANGED exceptSession

SessionNext ==
    \/ StreamRecv
    \/ StreamLoopCheck
    \/ StreamFeedCheck
    \/ StreamParse
    \/ StreamExtend
    \/ IngestIter
    \/ IngestPop
    \/ IngestApply
    \/ EmitRead
    \/ EmitSend
    \/ EmitTeardown

\* ========================================================================
\* Part III  The assembly of a snapshot by get_analytics_data: which sections
\* appear, and how, when the computation of some sections raises.  A section
\* of the result is "ok" (computed), "error" ({"error": str(e)}) or "absent"
\* (no key).  The inputs are the set of sections whose computation raises when
\* it is executed, and the set of inputs that are present in the engine.
\* ========================================================================
\* largest number of sections that raise in one call
MaxFailures == 2

\* the guarded sections of get_analytics_data, in program order
Sections == <<"orderbook", "trade_flow", "momentum", "depth_decay", "liquidations",
              "market_indicators", "candles", "volatility", "trade_flow_multi",
              "liquidations_multi", "oi_multi", "session_context", "regime",
              "slippage", "crowding", "system_status", "cross_asset_context">>

SectionSet == {Sections[i] : i \in 1..Len(Sections)}

Inputs == {"orderbook", "depth", "market", "candles", "session"}

\* try: <compute>; data[s] = {...}  except Exception as e: data[s] = {"error": str(e)}
Guarded(s, r) == IF s \in r THEN "error" ELSE "ok"

\* try: x = <compute>; if x: data[s] = {...}  except ...: data[s] = {"error": ...}
GuardedIfPresent(s, r, present) ==
    IF s \in r THEN "error" ELSE IF present THEN "ok" ELSE "absent"

\* the outcome of the block of section s, given the snapshot d built so far
SectionResult(s, d, r, h) ==
    CASE s = "orderbook" ->
            \* if self.orderbook: try ... except
            IF "orderbook" \in h THEN Guarded(s, r) ELSE "absent"
      [] s = "depth_decay" -> GuardedIfPresent(s, r, "depth" \in h)
      [] s = "market_indicators" -> GuardedIfPresent(s, r, "market" \in h)
      [] s = "candles" -> GuardedIfPresent(s, r, "candles" \in h)
      [] s = "volatility" -> GuardedIfPresent(s, r, "candles" \in h)
      [] s = "session_context" -> GuardedIfPresent(s, r, "session" \in h)
      [] s = "slippage" ->
            \* try: if self.orderbook and ...: estimate, data["slippage"] = ...
            IF "orderbook" \in h THEN Guarded(s, r) ELSE "absent"
      [] s = "crowding" ->
            \* try: if market_indicators and "error" not in market_indicators: detect ...
            IF d["market_indicators"] = "ok" THEN Guarded(s, r) ELSE "absent"
      [] OTHER -> Guarded(s, r)

\* the sections are assembled one after another into the same dict
RECURSIVE Assemble(_, _, _, _)
Assemble(i, d, r, h) ==
    IF i > Len(Sections) THEN d
    ELSE Assemble(i + 1, [d EXCEPT ![Sections[i]] = SectionResult(Sections[i], d, r, h)], r, h)

NoData == [s \in SectionSet |-> "absent"]

\* AnalyticsEngine.get_analytics_data
get_analytics_data(r, h) == Assemble(1, NoData, r, h)

SnapshotInit ==
    /\ raises \in {r \in SUBSET SectionSet : Cardinality(r) <= MaxFailures}
    /\ has \in SUBSET Inputs
    /\ data = NoData
    /\ assembled = FALSE

GetAnalyticsData ==
    /\ ~assembled
    /\ data' = get_analytics_data(raises, has)
    /\ assembled' = TRUE
    /\ UNCHANGED <<raises, has>>
    /\ UNCHANGED exceptSnapshot

\* ========================================================================
\* Part IV  Shutdown: HyperliquidClient.close and HyperliquidSdkTransport.close,
\* called from the event-loop thread (the handler's finally block or any other
\* caller) while the stream thread runs the transport's generator, whose
\* finally block calls close as well.  No lock protects _closed: the threads
\* interleave between the statements.  Here transport_closed is
\* HyperliquidSdkTransport._closed.
\* ========================================================================
\* number of client.close() calls issued
MaxCloseCalls == 2
\* number of messages the generator yields
MaxMessages == 2

Threads == {"loop", "stream"}

\* the session variables shutdown does not touch
sessRest == <<next_id, stream_pc, msg, pending, buffer, ingest_pc, in_hand, apply_idx,
              emit_pc, read_idx, running, applied, snap, published, processed, fed>>

exceptQueue == <<engineVars, sessRest, snapVars, pureVars, volVars, trackVars>>
exceptClose == <<exceptQueue, queueVars>>

\* the items of the transport queue: the sentinel and the normalized messages
Sentinel == [sentinel |-> TRUE, id |-> 0]
Message(n) == [sentinel |-> FALSE, id |-> n]

CloseInit ==
    /\ close_pc = [th \in Threads |-> IF th = "loop" THEN "idle" ELSE "start"]
    /\ close_calls = 0
    /\ stop_event = FALSE
    /\ queued = <<>>
    /\ sentinels = 0
    /\ disconnects = 0
    /\ delivered = 0
    /\ cb_pc = "idle"
    /\ cb_msg = 0
    /\ received = 0
    /\ after_call = {}
    /\ late = {}
    /\ yielded = {}

\* where a thread continues after transport.close() returns
Return(th) == IF th = "loop" THEN "idle" ELSE "done"

\* ---- the event-loop thread: HyperliquidClient.close ----
\* a caller issues client.close()
CloseCall ==
    /\ close_pc["loop"] = "idle"
    /\ close_calls < MaxCloseCalls
    /\ close_calls' = close_calls + 1
    /\ close_pc' = [close_pc EXCEPT !["loop"] = "c_check"]
    /\ UNCHANGED <<closed, transport_closed, stop_event, queued, sentinels, disconnects,
                   delivered>>
    /\ UNCHANGED exceptClose

\* if self._closed: return
ClientCloseCheck ==
    /\ close_pc["loop"] = "c_check"
    /\ close_pc' = [close_pc EXCEPT !["loop"] = IF closed THEN "idle" ELSE "c_set"]
    /\ UNCHANGED <<closed, transport_closed, close_calls, stop_event, queued, sentinels,
                   disconnects, delivered>>
    /\ UNCHANGED exceptClose

\* self._closed = True; transport.close() is entered
ClientCloseSet ==
    /\ close_pc["loop"] = "c_set"
    /\ closed' = TRUE
    /\ close_pc' = [close_pc EXCEPT !["loop"] = "t_check"]
    /\ UNCHANGED <<transport_closed, close_calls, stop_event, queued, sentinels,
                   disconnects, delivered>>
    /\ UNCHANGED exceptClose

\* ---- HyperliquidSdkTransport.close, run by either thread ----
\* if self._closed: return
TransportCloseCheck(th) ==
    /\ close_pc[th] = "t_check"
    /\ close_pc' = [close_pc EXCEPT ![th] = IF transport_closed THEN Return(th) ELSE "t_set"]
    /\ UNCHANGED <<closed, transport_closed, close_calls, stop_event, queued, sentinels,
                   disconnects, delivered>>
    /\ UNCHANGED exceptClose

\* self._closed = True; self._stop_event.set()
TransportCloseSet(th) ==
    /\ close_pc[th] = "t_set"
    /\ transport_closed' = TRUE
    /\ stop_event' = TRUE
    /\ close_pc' = [close_pc EXCEPT ![th] = "t_put"]
    /\ UNCHANGED <<closed, close_calls, queued, sentinels, disconnects, delivered>>
    /\ UNCHANGED exceptClose

\* self._queue.put(self._sentinel)
TransportClosePut(th) ==
    /\ close_pc[th] = "t_put"
    /\ queued' = Append(queued, Sentinel)
    /\ sentinels' = sentinels + 1
    /\ close_pc' = [close_pc EXCEPT ![th] = "t_disconnect"]
    /\ UNCHANGED <<closed, transport_closed, close_calls, stop_event, disconnects, delivered>>
    /\ UNCHANGED exceptClose

\* info.disconnect_websocket()
TransportCloseDisconnect(th) ==
    /\ close_pc[th] = "t_disconnect"
    /\ disconnects' = disconnects + 1
    /\ close_pc' = [close_pc EXCEPT ![th] = Return(th)]
    /\ UNCHANGED <<closed, transport_closed, close_calls, stop_event, queued, sentinels,
                   delivered>>
    /\ UNCHANGED exceptClose

\* ---- the stream thread: the generator of the transport, driven by the
\* for loop of HyperliquidClient.connect_and_subscribe ----
\* if self._closed: return []; otherwise subscribe and enter the try block
GeneratorStart ==
    /\ close_pc["stream"] = "start"
    /\ close_pc' = [close_pc EXCEPT !["stream"] = IF transport_closed THEN "done" ELSE "while"]
    /\ UNCHANGED <<closed, transport_closed, close_calls, stop_event, queued, sentinels,
                   disconnects, delivered>>
    /\ UNCHANGED exceptClose

\* while not self._closed and not self._stop_event.is_set(); when the loop
\* ends the finally block calls self.close()
GeneratorWhile ==
    /\ close_pc["stream"] = "while"
    /\ close_pc' = [close_pc EXCEPT !["stream"] =
                        IF transport_closed \/ stop_event THEN "t_check" ELSE "get"]
    /\ UNCHANGED <<closed, transport_closed, close_calls, stop_event, queued, sentinels,
                   disconnects, delivered>>
    /\ UNCHANGED exceptClose

\* message = self._queue.get(), which blocks while the queue is empty: a
\* sentinel breaks out of the loop into the finally block, any other message
\* is yielded
GeneratorGet ==
    /\ close_pc["stream"] = "get"
    /\ queued # <<>>
    /\ queued' = Tail(queued)
    /\ IF Head(queued).sentinel
       THEN /\ close_pc' = [close_pc EXCEPT !["stream"] = "t_check"]
            /\ UNCHANGED <<delivered, yielded>>
       ELSE /\ delivered' = delivered + 1
            /\ yielded' = yielded \cup {Head(queued).id}
            /\ close_pc' = [close_pc EXCEPT !["stream"] = "yielded"]
    /\ UNCHANGED <<closed, transport_closed, close_calls, stop_event, sentinels, disconnects,
                   cb_pc, cb_msg, received, after_call, late>>
    /\ UNCHANGED exceptQueue

\* HyperliquidClient.connect_and_subscribe: if self._closed: break, which
\* finalises the generator (its finally block runs); otherwise the message is
\* fed and the generator is resumed
ClientLoopCheck ==
    /\ close_pc["stream"] = "yielded"
    /\ close_pc' = [close_pc EXCEPT !["stream"] = IF closed THEN "t_check" ELSE "while"]
    /\ UNCHANGED <<closed, transport_closed, close_calls, stop_event, queued, sentinels,
                   disconnects, delivered>>
    /\ UNCHANGED exceptClose

\* ---- the SDK's websocket thread: the callback registered per subscription ----
\* a thread is inside HyperliquidSdkTransport.close()
InTransportClose ==
    \E th \in Threads : close_pc[th] \in {"t_check", "t_set", "t_put", "t_disconnect"}

\* close() has been called: a thread is inside it, or one has been (every
\* call leaves _closed set)
CloseCalled == InTransportClose \/ transport_closed

\* a callback that enqueues whatever it is handed
CallbackReceive_unchecked ==
    /\ close_pc["stream"] # "start"
    /\ cb_pc = "idle"
    /\ received < MaxMessages
    /\ received' = received + 1
    /\ after_call' = IF CloseCalled THEN after_call \cup {received + 1} ELSE after_call
    /\ late' = IF transport_closed THEN late \cup {received + 1} ELSE late
    /\ cb_pc' = "put"
    /\ cb_msg' = received + 1
    /\ UNCHANGED <<closed, transport_closed, close_pc, close_calls, stop_event, queued,
                   sentinels, disconnects, delivered, yielded>>
    /\ UNCHANGED exceptQueue

\* the SDK hands a message to the callback of a registered subscription:
\* if self._closed or self._stop_event.is_set(): return
CallbackReceive ==
    /\ close_pc["stream"] # "start"
    /\ cb_pc = "idle"
    /\ received < MaxMessages
    /\ received' = received + 1
    /\ after_call' = IF CloseCalled THEN after_call \cup {received + 1} ELSE after_call
    /\ late' = IF transport_closed THEN late \cup {received + 1} ELSE late
    /\ IF transport_closed \/ stop_event
       THEN UNCHANGED <<cb_pc, cb_msg>>
       ELSE cb_pc' = "put" /\ cb_msg' = received + 1
    /\ UNCHANGED <<closed, transport_closed, close_pc, close_calls, stop_event, queued,
                   sentinels, disconnects, delivered, yielded>>
    /\ UNCHANGED exceptQueue

\* self._queue.put(normalized)
CallbackPut ==
    /\ cb_pc = "put"
    /\ queued' = Append(queued, Message(cb_msg))
    /\ cb_pc' = "idle"
    /\ UNCHANGED <<closed, transport_closed, close_pc, close_calls, stop_event, cb_msg,
                   sentinels, disconnects, delivered, received, after_call, late, yielded>>
    /\ UNCHANGED exceptQueue

CloseNext ==
    \/ CallbackReceive
    \/ CallbackPut
    \/ CloseCall
    \/ ClientCloseCheck
    \/ ClientCloseSet
    \/ \E th \in Threads : TransportCloseCheck(th)
    \/ \E th \in Threads : TransportCloseSet(th)
    \/ \E th \in Threads : TransportClosePut(th)
    \/ \E th \in Threads : TransportCloseDisconnect(th)
    \/ GeneratorStart
    \/ GeneratorWhile
    \/ GeneratorGet
    \/ ClientLoopCheck

\* ========================================================================
\* Part V  Pure functions, applied once to arguments drawn from bounded sets.
\* Ratios and strengths in [0, 1] are counted in tenths.
\* ========================================================================
\* ---- RegimeDetector.detect_market_regime ----
\* RegimeDetector.high_liq_count
HighLiqCount == 10
\* trend_strength > 0.6, in tenths
StrongTrendTenths == 6
\* buy_ratio > 0.6 and buy_ratio < 0.4, in tenths
BuyFlowTenths == 6
SellFlowTenths == 4

RegimeInputs ==
    [kind : {"regime"},
     trend_regime : {"up", "down", "range"},
     trend_strength : {6, 7},
     vol_regime : {"low", "normal", "high"},
     buy_ratio : {3, 4, 6, 7},
     liq_count : {9, 10},
     long_liq_count : {2, 3, 4},
     short_liq_count : {2, 3, 4}]

\* a detector that looks at the trend before the liquidations
detect_market_regime_trend_first(trend_regime, trend_strength, vol_regime, buy_ratio, liq_count, long_liq_count, short_liq_count) ==
    IF trend_strength > StrongTrendTenths
       /\ \/ trend_regime = "up" /\ buy_ratio > BuyFlowTenths
          \/ trend_regime = "down" /\ buy_ratio < SellFlowTenths
    THEN "trend"
    ELSE IF liq_count >= HighLiqCount
    THEN IF 2 * short_liq_count > 3 * long_liq_count /\ trend_regime = "up"
         THEN "short_squeeze"
         ELSE IF 2 * long_liq_count > 3 * short_liq_count /\ trend_regime = "down"
         THEN "crash"
         ELSE "liquidation_event"
    ELSE IF vol_regime = "high" /\ trend_regime = "range"
    THEN "chop"
    ELSE "normal"

\* RegimeDetector.detect_market_regime; x > y * 1.5 is 2x > 3y
detect_market_regime(trend_regime, trend_strength, vol_regime, buy_ratio, liq_count, long_liq_count, short_liq_count) ==
    IF liq_count >= HighLiqCount
    THEN IF 2 * short_liq_count > 3 * long_liq_count /\ trend_regime = "up"
         THEN "short_squeeze"
         ELSE IF 2 * long_liq_count > 3 * short_liq_count /\ trend_regime = "down"
         THEN "crash"
         ELSE "liquidation_event"
    ELSE IF trend_strength > StrongTrendTenths /\ trend_regime = "up"
            /\ buy_ratio > BuyFlowTenths
    THEN "trend"
    ELSE IF trend_strength > StrongTrendTenths /\ trend_regime = "down"
            /\ buy_ratio < SellFlowTenths
    THEN "trend"
    ELSE IF vol_regime = "high" /\ trend_regime = "range"
    THEN "chop"
    ELSE "normal"

NoResult == [kind |-> "none"]

RegimeInit == args \in RegimeInputs /\ result = NoResult

DetectMarketRegime ==
    /\ args.kind = "regime"
    /\ result = NoResult
    /\ result' = [kind |-> "regime",
                  value |-> detect_market_regime(args.trend_regime, args.trend_strength,
                                                 args.vol_regime, args.buy_ratio,
                                                 args.liq_count, args.long_liq_count,
                                                 args.short_liq_count)]
    /\ UNCHANGED args
    /\ UNCHANGED exceptPure

\* ------------------------------------------------------------------------
\* SlippageEstimator: walk one side of the book for a USD size.  Prices and
\* USD amounts are integers; quotients are kept as fractions [num, den].
\* An estimate carries the slippage as a fraction of the best price
\* (slippage_bps is 10 000 times it) and the terms of round_trip_cost_bps
\* (spread_bps, the slippage and the fee, counted twice) rather than their sum.
\* ------------------------------------------------------------------------
TakerFeeTenthsBps == 28
FeasiblePct == 99
DefaultSpreadBps == 10
TradeSizesUsd == {500, 1000, 5000}

\* OrderBookSide.best_price
best_price(levels) == IF levels = <<>> THEN None ELSE levels[1].price

\* the conversion of the top levels of a side to the estimator's levels
SlippageLevels(levels) ==
    [i \in 1..Len(Take(levels, BookLevels)) |->
        [price |-> levels[i].price, size |-> levels[i].size,
         total_usd |-> levels[i].price * levels[i].size]]

RECURSIVE TotalLiquidityUsd(_)
TotalLiquidityUsd(levels) ==
    IF levels = <<>> THEN 0
    ELSE Head(levels).total_usd + TotalLiquidityUsd(Tail(levels))

\* the loop over the levels of estimate_buy and estimate_sell
\* a fill that takes the whole level whatever remains to be filled
FillUsd_uncapped(remaining_usd, level) == level.total_usd

\* fill_usd: how much of the remaining size one level fills
FillUsd(remaining_usd, level) == Min(remaining_usd, level.total_usd)

\* fills records, for each level the loop visits, its price and the USD it fills
RECURSIVE WalkLevels(_, _, _, _, _)
WalkLevels(levels, trade_size_usd, total_usd_filled, total_notional, fills) ==
    IF levels = <<>> \/ total_usd_filled >= trade_size_usd
    THEN [total_usd_filled |-> total_usd_filled, total_notional |-> total_notional,
          fills |-> fills]
    ELSE LET remaining_usd == trade_size_usd - total_usd_filled
             fill_usd == FillUsd(remaining_usd, Head(levels))
         IN  WalkLevels(Tail(levels), trade_size_usd, total_usd_filled + fill_usd,
                        total_notional + fill_usd * Head(levels).price,
                        Append(fills, [price |-> Head(levels).price, fill_usd |-> fill_usd]))

\* the fills of one estimate (none when the empty estimate is returned)
EstimateFills(levels, trade_size_usd) ==
    IF levels = <<>> \/ trade_size_usd <= 0 THEN <<>>
    ELSE WalkLevels(levels, trade_size_usd, 0, 0, <<>>).fills

\* the VWAP divided by the requested size instead of the filled amount
AvgFillPrice_over_requested(w, trade_size_usd, best) ==
    IF w.total_usd_filled > 0
    THEN [num |-> w.total_notional, den |-> trade_size_usd]
    ELSE [num |-> best, den |-> 1]

\* avg_fill_price of estimate_buy and estimate_sell
AvgFillPrice(w, trade_size_usd, best) ==
    IF w.total_usd_filled > 0
    THEN [num |-> w.total_notional, den |-> w.total_usd_filled]
    ELSE [num |-> best, den |-> 1]

\* SlippageEstimator._empty_estimate
empty_estimate(trade_size_usd, side, best, spread_bps) ==
    [trade_size_usd |-> trade_size_usd, side |-> side,
     avg_fill_price |-> [num |-> best, den |-> 1], best_price |-> best,
     slippage |-> [num |-> 0, den |-> 1], spread_bps |-> spread_bps,
     fee_tenths_bps |-> TakerFeeTenthsBps,
     is_feasible |-> FALSE, liquidity_used_pct |-> [num |-> 100, den |-> 1]]

\* the body shared by estimate_buy (sign = 1) and estimate_sell (sign = -1)
estimate_side(levels, trade_size_usd, best, spread_bps, side, sign) ==
    IF levels = <<>> \/ trade_size_usd <= 0
    THEN empty_estimate(trade_size_usd, side, best, spread_bps)
    ELSE LET total_liquidity_usd == TotalLiquidityUsd(levels)
             w == WalkLevels(levels, trade_size_usd, 0, 0, <<>>)
             avg == AvgFillPrice(w, trade_size_usd, best)
             slippage == [num |-> sign * (avg.num - best * avg.den),
                          den |-> avg.den * best]
         IN  [trade_size_usd |-> trade_size_usd, side |-> side,
              avg_fill_price |-> avg, best_price |-> best,
              slippage |-> slippage, spread_bps |-> spread_bps,
              fee_tenths_bps |-> TakerFeeTenthsBps,
              is_feasible |-> w.total_usd_filled * 100 >= trade_size_usd * FeasiblePct,
              liquidity_used_pct |->
                  IF total_liquidity_usd > 0
                  THEN [num |-> w.total_usd_filled * 100, den |-> total_liquidity_usd]
                  ELSE [num |-> 100, den |-> 1]]

estimate_buy(asks, trade_size_usd, best_ask, spread_bps) ==
    estimate_side(asks, trade_size_usd, best_ask, spread_bps, "buy", 1)

estimate_sell(bids, trade_size_usd, best_bid, spread_bps) ==
    estimate_side(bids, trade_size_usd, best_bid, spread_bps, "sell", -1)

\* the sides of a book: up to three levels at strictly improving-to-worse
\* prices (asks ascending, bids descending), as OrderBookSide keeps them
SidePrices == {99, 100, 102, 104}
SideSizes == {1, 5, 40}
MaxSideLevels == 3
SideLevel == [price : SidePrices, size : SideSizes]
AskSides ==
    UNION { { l \in [1..n -> SideLevel] :
                \A i \in 1..(n - 1) : l[i].price < l[i + 1].price } : n \in 0..MaxSideLevels }
BidSides ==
    UNION { { l \in [1..n -> SideLevel] :
                \A i \in 1..(n - 1) : l[i].price > l[i + 1].price } : n \in 0..MaxSideLevels }

\* the calls of estimate_for_sizes, and a call with a size of zero
SlippageInputs ==
    { [kind |-> "slippage", side |-> "buy", levels |-> l, trade_size_usd |-> sz,
       spread_bps |-> DefaultSpreadBps] : l \in AskSides, sz \in TradeSizesUsd \cup {0} }
    \cup
    { [kind |-> "slippage", side |-> "sell", levels |-> l, trade_size_usd |-> sz,
       spread_bps |-> DefaultSpreadBps] : l \in BidSides, sz \in TradeSizesUsd \cup {0} }

SlippageInit == args \in SlippageInputs /\ result = [kind |-> "none"]

\* the same calls on a book quoted in small units (prices 1, 2 and 4, sizes of
\* 2, 4 and 8 USD), where the base quantities fill / price are exact fractions
UnitPrices == {1, 2, 4}
UnitSizes == {1, 2, 4}
UnitTradeSizes == {0, 2, 4, 8}
UnitLevel == [price : UnitPrices, size : UnitSizes]
UnitAskSides ==
    UNION { { l \in [1..n -> UnitLevel] :
                \A i \in 1..(n - 1) : l[i].price < l[i + 1].price } : n \in 0..MaxSideLevels }
UnitBidSides ==
    UNION { { l \in [1..n -> UnitLevel] :
                \A i \in 1..(n - 1) : l[i].price > l[i + 1].price } : n \in 0..MaxSideLevels }
UnitSlippageInputs ==
    { [kind |-> "slippage", side |-> "buy", levels |-> l, trade_size_usd |-> sz,
       spread_bps |-> DefaultSpreadBps] : l \in UnitAskSides, sz \in UnitTradeSizes }
    \cup
    { [kind |-> "slippage", side |-> "sell", levels |-> l, trade_size_usd |-> sz,
       spread_bps |-> DefaultSpreadBps] : l \in UnitBidSides, sz \in UnitTradeSizes }

UnitSlippageInit == args \in UnitSlippageInputs /\ result = [kind |-> "none"]

EstimateBuy ==
    /\ args.kind = "slippage" /\ args.side = "buy"
    /\ result.kind = "none"
    /\ result' = [kind |-> "slippage",
                  value |-> estimate_buy(SlippageLevels(args.levels), args.trade_size_usd,
                                         best_price(args.levels), args.spread_bps),
                  fills |-> EstimateFills(SlippageLevels(args.levels), args.trade_size_usd)]
    /\ UNCHANGED args
    /\ UNCHANGED exceptPure

EstimateSell ==
    /\ args.kind = "slippage" /\ args.side = "sell"
    /\ result.kind = "none"
    /\ result' = [kind |-> "slippage",
                  value |-> estimate_sell(SlippageLevels(args.levels), args.trade_size_usd,
                                          best_price(args.levels), args.spread_bps),
                  fills |-> EstimateFills(SlippageLevels(args.levels), args.trade_size_usd)]
    /\ UNCHANGED args
    /\ UNCHANGED exceptPure

\* ========================================================================
\* Part VI  The volume updater: _volume_update_loop calls
\* fetch_hyperliquid_volumes and sleeps for one interval.  A response is
\* [kind, volume]: the request raises ("raise"), the body is unusable
\* ("unusable": not the expected list, or the coin is missing) or it is usable
\* ("ok") and carries a volume, possibly 0.
\* ========================================================================
MaxVolumeTicks == 3
VolumeValues == {0, 5, 7}
VolumeResponses ==
    {[kind |-> "raise", volume |-> 0], [kind |-> "unusable", volume |-> 0]}
    \cup { [kind |-> "ok", volume |-> v] : v \in VolumeValues }
FetchDurations == {0, 10}

\* _update_meta_volume: the 24h volume after a response that did not raise
update_meta_volume(h24, resp) ==
    IF resp.kind = "ok" /\ resp.volume # 0 THEN resp.volume ELSE h24

\* _fetch_candle_volume: the value returned for a response that did not raise
fetch_candle_volume(resp) ==
    IF resp.kind = "ok" /\ resp.volume > 0 THEN resp.volume ELSE None

\* a response that carries a volume
Usable(resp) == resp.kind = "ok" /\ resp.volume > 0

\* fetch_hyperliquid_volumes: the fields and last_volume_fetch_time after a
\* call at current_time given the three responses; the requests after one
\* that raises are not issued
fetch_hyperliquid_volumes(vol, last_fetch, current_time, meta, r1h, r4h) ==
    IF current_time - last_fetch < VolumeUpdateInterval
    THEN [vol |-> vol, last_fetch |-> last_fetch, attempted |-> FALSE]
    ELSE IF meta.kind = "raise"
    THEN [vol |-> vol, last_fetch |-> last_fetch, attempted |-> TRUE]
    ELSE LET v1 == [vol EXCEPT !.h24 = update_meta_volume(vol.h24, meta)]
         IN  IF r1h.kind = "raise"
             THEN [vol |-> v1, last_fetch |-> last_fetch, attempted |-> TRUE]
             ELSE LET v2 == [v1 EXCEPT !.h1 = fetch_candle_volume(r1h)]
                  IN  IF r4h.kind = "raise"
                      THEN [vol |-> v2, last_fetch |-> last_fetch, attempted |-> TRUE]
                      ELSE [vol |-> [v2 EXCEPT !.h4 = fetch_candle_volume(r4h)],
                            last_fetch |-> current_time, attempted |-> TRUE]

\* one iteration of _volume_update_loop: the fetch, which takes d seconds,
\* then asyncio.sleep(_volume_update_interval)
VolumeUpdateLoop(meta, r1h, r4h, d) ==
    LET out == fetch_hyperliquid_volumes(hyperliquid_volume, last_volume_fetch_time,
                                         vol_time, meta, r1h, r4h)
        got1 == out.attempted /\ meta.kind # "raise"
        got4 == got1 /\ r1h.kind # "raise"
    IN  /\ vol_ticks < MaxVolumeTicks
        /\ hyperliquid_volume' = out.vol
        /\ last_volume_fetch_time' = out.last_fetch
        /\ vol_time' = vol_time + d + VolumeUpdateInterval
        /\ vol_ticks' = vol_ticks + 1
        /\ last_good' =
              [h24 |-> IF out.attempted /\ Usable(meta) THEN meta.volume ELSE last_good.h24,
               h1 |-> IF got1 /\ Usable(r1h) THEN r1h.volume ELSE last_good.h1,
               h4 |-> IF got4 /\ Usable(r4h) THEN r4h.volume ELSE last_good.h4]
        /\ vol_ev' = [attempted |-> out.attempted, meta |-> meta.kind,
                      h1 |-> IF got1 THEN r1h.kind ELSE "none",
                      h4 |-> IF got4 THEN r4h.kind ELSE "none"]
        /\ UNCHANGED exceptVolume

VolumeNext ==
    \E meta \in VolumeResponses, r1h \in VolumeResponses, r4h \in VolumeResponses,
       d \in FetchDurations : VolumeUpdateLoop(meta, r1h, r4h, d)

\* ========================================================================
\* Part VII  The system-status block of get_analytics_data, taken on the
\* engine's state at the wall-clock time of the snapshot.
\* ========================================================================
OrderbookFreshMs == 5000

\* "s" in data and "error" not in data[s]
HasSection(d, s) == d[s] = "ok"

\* a freshness test that accepts an age of exactly 5 s
orderbook_fresh_inclusive(book, last_update, current_time) ==
    IF book.present /\ last_update # None
    THEN current_time - last_update <= OrderbookFreshMs
    ELSE FALSE

\* orderbook_fresh: self.orderbook and self.last_orderbook_update_time, then
\* age < 5.0 (times here are offsets from the start; a reading of time.time()
\* is never 0.0, so a recorded time is always truthy)
orderbook_fresh(book, last_update, current_time) ==
    IF book.present /\ last_update # None
    THEN current_time - last_update < OrderbookFreshMs
    ELSE FALSE

\* data["system_status"], given the sections d assembled before it, the
\* trade count the trade_flow section reported and the engine's fields
system_status(d, trade_count, book, last_update, vol, current_time) ==
    LET has_orderbook == HasSection(d, "orderbook")
        has_trades == HasSection(d, "trade_flow")
        has_liquidations == HasSection(d, "liquidations")
        has_market_indicators == HasSection(d, "market_indicators")
        has_candles == HasSection(d, "candles")
        has_session_context == HasSection(d, "session_context")
        fresh == orderbook_fresh(book, last_update, current_time)
        trades_fresh == has_trades /\ trade_count > 0
        market_data_fresh == has_market_indicators /\ has_liquidations
        volumes_fresh == vol.h24 # None /\ vol.h1 # None /\ vol.h4 # None
    IN  [data_quality_ok |-> has_orderbook /\ fresh /\ has_trades /\ has_candles
                             /\ has_session_context /\ market_data_fresh,
         feed_connected |-> fresh,
         modules |->
            [orderbook |-> [ok |-> has_orderbook, fresh |-> fresh],
             trades |-> [ok |-> has_trades, fresh |-> trades_fresh],
             liquidations |-> [ok |-> has_liquidations, fresh |-> market_data_fresh],
             market_indicators |-> [ok |-> has_market_indicators, fresh |-> market_data_fresh],
             candles |-> [ok |-> has_candles, fresh |-> has_candles],
             session_context |-> [ok |-> has_session_context, fresh |-> has_session_context],
             hyperliquid_volumes |-> [ok |-> volumes_fresh, fresh |-> volumes_fresh]],
         last_check |-> current_time]

\* the snapshots taken of an engine that has been fed order books only: the
\* order book is an input iff one is stored, the other inputs are all there
\* or all missing, and no section raises, or the order-book section or the
\* trade-flow section does
StatusRaises == {{}, {"orderbook"}, {"trade_flow"}}
StatusInputs ==
    { IF orderbook.present THEN h \cup {"orderbook"} ELSE h \ {"orderbook"} :
        h \in {Inputs, {}} }
StatusTradeCounts == {0, 3}

\* the volatility section of get_analytics_data: the tracker is updated when
\* both the 1m and the 5m metrics exist
volatility_section(history, self) ==
    LET metrics_1m == get_metrics(history, 1)
        metrics_5m == get_metrics(history, 5)
    IN  IF metrics_1m.present /\ metrics_5m.present
        THEN LET c == calculate_metrics(self, metrics_1m.atr, metrics_5m.atr)
             IN  [self |-> c.self,
                  volatility |-> [present |-> TRUE, atr_1m |-> c.metrics.atr_1m,
                                  atr_5m |-> c.metrics.atr_5m, regime |-> c.metrics.regime,
                                  percentile |-> c.metrics.percentile]]
        ELSE [self |-> self, volatility |-> NoMetrics]

\* what a call of get_analytics_data changes in the engine: the getters of the
\* trade-flow, momentum, depth, liquidation and market trackers evict expired
\* entries and the volatility section updates the volatility tracker
SnapshotTrackers ==
    /\ trade_tracker' = TF_get_stats(trade_tracker, now)
    /\ market_tracker' = Market_cleanup_old_contexts(market_tracker, now)
    /\ momentum_tracker' = Momentum_cleanup_old_prices(momentum_tracker, now)
    /\ depth_tracker' = Depth_cleanup_old_snapshots(depth_tracker, now)
    /\ liq_detector' = Liq_cleanup_old_data(liq_detector, now)
    /\ volatility_tracker' = volatility_section(candles_1m, volatility_tracker).self
    /\ UNCHANGED <<orderbook, last_orderbook_update_time, session_tracker, current_candle,
                   candles_1m, counters, message_timestamps, now, ev, observed, trade_log,
                   event_times>>
    /\ UNCHANGED <<sessVars, snapVars, closeVars, volVars>>

\* get_analytics_data, returning the system-status block
SnapshotStatus(r, h, trade_count) ==
    /\ SnapshotTrackers
    /\ result' = [kind |-> "system_status",
                  value |-> system_status(get_analytics_data(r, h), trade_count, orderbook,
                                          last_orderbook_update_time, hyperliquid_volume,
                                          now)]
    /\ UNCHANGED <<args, snapshots>>

\* ========================================================================
\* Part VIII  Snapshots and the volatility tracker: get_analytics_data takes
\* the 1m and 5m ATR of the candle history and hands them to
\* VolatilityTracker.calculate_metrics.
\* ========================================================================
MaxSnapshots == 101

\* get_analytics_data, returning the volatility section; the result records
\* the event count, the clock and the history length the call saw
SnapshotVolatility ==
    /\ snapshots < MaxSnapshots
    /\ SnapshotTrackers
    /\ snapshots' = snapshots + 1
    /\ result' = [kind |-> "analytics",
                  value |-> volatility_section(candles_1m, volatility_tracker).volatility,
                  event_count |-> counters.event_count, now |-> now,
                  n_candles |-> Len(candles_1m)]
    /\ UNCHANGED args

\* get_analytics_data, returning the momentum section (get_all_momentum); the
\* result records the event count and the clock the call saw
SnapshotMomentum ==
    /\ SnapshotTrackers
    /\ result' = [kind |-> "momentum",
                  short |-> get_momentum(momentum_tracker, ShortWindowMs, now),
                  long |-> get_momentum(momentum_tracker, LongWindowMs, now),
                  event_count |-> counters.event_count, now |-> now]
    /\ UNCHANGED <<args, snapshots>>

\* get_analytics_data, returning the session_context section; the result
\* records the event count and the clock the call saw
SnapshotSessionContext ==
    /\ SnapshotTrackers
    /\ result' = [kind |-> "session_context", value |-> get_context(session_tracker),
                  event_count |-> counters.event_count, now |-> now]
    /\ UNCHANGED <<args, snapshots>>

\* get_analytics_data, returning the depth-decay section; the result records
\* the event count and the clock the call saw
SnapshotDepthDecay ==
    /\ SnapshotTrackers
    /\ result' = [kind |-> "depth_decay", value |-> get_decay_stats(depth_tracker, now),
                  event_count |-> counters.event_count, now |-> now]
    /\ UNCHANGED <<args, snapshots>>

\* ------------------------------------------------------------------------
\* one call of _calculate_atr(candles, period=14), as get_metrics makes it.
\* The candle lists have 0 to MaxAtrCandles candles drawn in a periodic
\* order from four shapes: a plain candle, one that gaps up, one that gaps
\* down and a flat one
MaxAtrCandles == 17
AtrShapes ==
    <<[high |-> 102, low |-> 100, close |-> 101],
      [high |-> 110, low |-> 108, close |-> 109],
      [high |-> 95, low |-> 90, close |-> 91],
      [high |-> 101, low |-> 101, close |-> 101]>>
AtrCandle(i, a, b) ==
    LET shape == AtrShapes[((a * i + b) % 4) + 1]
    IN  [timestamp_ms |-> (i - 1) * CandleMs, open |-> shape.close, high |-> shape.high,
         low |-> shape.low, close |-> shape.close, volume |-> 1, n_trades |-> 1]
AtrInputs ==
    { [kind |-> "atr", candles |-> [i \in 1..n |-> AtrCandle(i, a, b)]] :
        n \in 0..MaxAtrCandles, a \in 0..3, b \in 0..3 }

AtrInit == args \in AtrInputs /\ result = NoResult

CalculateAtr ==
    /\ args.kind = "atr"
    /\ result = NoResult
    /\ result' = [kind |-> "atr", value |-> calculate_atr(args.candles, AtrPeriod)]
    /\ UNCHANGED args
    /\ UNCHANGED exceptPure

\* ------------------------------------------------------------------------
\* one call of VolatilityTracker.calculate_metrics on a tracker that earlier
\* calls have filled: both histories hold n values, the first k of them 1 and
\* the others 3; n is empty, just below or at the 10 values the regime
\* needs, or just below or at the window.  The ATRs passed are 1 (also
\* written 2/2), 2 and 3 for 5m and 0 and 9 for 1m
MetricsHistoryLengths == {0, 8, 9, 10, HistoryWindow - 1, HistoryWindow}
MetricsHistory(n, k) ==
    [i \in 1..n |-> IF i <= k THEN [num |-> 1, den |-> 1] ELSE [num |-> 3, den |-> 1]]
MetricsAtr5m == {[num |-> 1, den |-> 1], [num |-> 2, den |-> 2], [num |-> 2, den |-> 1],
                 [num |-> 3, den |-> 1]}
MetricsAtr1m == {[num |-> 0, den |-> 1], [num |-> 9, den |-> 1]}
MetricsInputs ==
    { [kind |-> "metrics",
       self |-> [atr_1m_history |-> MetricsHistory(nk[1], nk[2]),
                 atr_5m_history |-> MetricsHistory(nk[1], nk[2])],
       atr_1m |-> a1, atr_5m |-> a5] :
        nk \in {x \in MetricsHistoryLengths \X (0..HistoryWindow) : x[2] <= x[1]},
        a1 \in MetricsAtr1m, a5 \in MetricsAtr5m }

MetricsInit == args \in MetricsInputs /\ result = NoResult

CalculateMetrics ==
    /\ args.kind = "metrics"
    /\ result = NoResult
    /\ result' = [kind |-> "metrics",
                  value |-> calculate_metrics(args.self, args.atr_1m, args.atr_5m)]
    /\ UNCHANGED args
    /\ UNCHANGED exceptPure

\* ------------------------------------------------------------------------
\* CrowdingDetector as the engine constructs it. Velocity, funding and basis
\* are in hundredths of a percent and scores in hundredths, so that the
\* thresholds 0.05, 0.01, -0.01, 0.1, -0.1 and 0.6 are whole numbers; every
\* sum of the weights the code can form compares with 0.6 as its exact value
\* does
\* ------------------------------------------------------------------------
oi_velocity_high_threshold == 5
funding_bullish_threshold == 1
funding_bearish_threshold == -1
basis_rich_threshold == 10
basis_cheap_threshold == -10
crowding_threshold == 60

\* CrowdingDetector._generate_interpretation: which text, with the score it
\* prints (None in the texts that print none)
generate_interpretation(crowded_long, crowded_short, long_score, short_score) ==
    IF crowded_long /\ crowded_short THEN [text |-> "Mixed signals", score |-> None]
    ELSE IF crowded_long THEN [text |-> "Crowded LONG", score |-> long_score]
    ELSE IF crowded_short THEN [text |-> "Crowded SHORT", score |-> short_score]
    ELSE IF long_score > short_score THEN [text |-> "Lean long", score |-> long_score]
    ELSE IF short_score > long_score THEN [text |-> "Lean short", score |-> short_score]
    ELSE [text |-> "Balanced positioning", score |-> None]

\* a detect that flags a side only above the crowding threshold
detect_above(oi_trend, oi_velocity, funding_rate, basis_percent) ==
    LET shared == (IF oi_trend = "up" THEN 30 ELSE 0)
                  + (IF Abs(oi_velocity) > oi_velocity_high_threshold THEN 20 ELSE 0)
        long_score ==
            shared
            + (IF funding_rate > funding_bullish_threshold
               THEN 30 + (IF funding_rate > funding_bullish_threshold * 2 THEN 10 ELSE 0)
               ELSE 0)
            + (IF basis_percent > basis_rich_threshold THEN 20 ELSE 0)
        short_score ==
            shared
            + (IF funding_rate < funding_bearish_threshold
               THEN 30 + (IF funding_rate < funding_bearish_threshold * 2 THEN 10 ELSE 0)
               ELSE 0)
            + (IF basis_percent < basis_cheap_threshold THEN 20 ELSE 0)
        crowded_long == long_score > crowding_threshold
        crowded_short == short_score > crowding_threshold
    IN  [crowded_long |-> crowded_long, crowded_short |-> crowded_short,
         long_crowding_score |-> long_score, short_crowding_score |-> short_score,
         interpretation |-> generate_interpretation(crowded_long, crowded_short,
                                                    long_score, short_score)]

\* CrowdingDetector.detect (funding_trend and basis_status are only copied
\* into the result and the text)
detect(oi_trend, oi_velocity, funding_rate, basis_percent) ==
    LET shared == (IF oi_trend = "up" THEN 30 ELSE 0)
                  + (IF Abs(oi_velocity) > oi_velocity_high_threshold THEN 20 ELSE 0)
        long_score ==
            shared
            + (IF funding_rate > funding_bullish_threshold
               THEN 30 + (IF funding_rate > funding_bullish_threshold * 2 THEN 10 ELSE 0)
               ELSE 0)
            + (IF basis_percent > basis_rich_threshold THEN 20 ELSE 0)
        short_score ==
            shared
            + (IF funding_rate < funding_bearish_threshold
               THEN 30 + (IF funding_rate < funding_bearish_threshold * 2 THEN 10 ELSE 0)
               ELSE 0)
            + (IF basis_percent < basis_cheap_threshold THEN 20 ELSE 0)
        crowded_long == long_score >= crowding_threshold
        crowded_short == short_score >= crowding_threshold
    IN  [crowded_long |-> crowded_long, crowded_short |-> crowded_short,
         long_crowding_score |-> long_score, short_crowding_score |-> short_score,
         interpretation |-> generate_interpretation(crowded_long, crowded_short,
                                                    long_score, short_score)]

\* one call of detect, on every trend and on velocities, funding rates and
\* basis values at, next to and beyond each threshold
CrowdingInputs ==
    { [kind |-> "crowding", oi_trend |-> tr, oi_velocity |-> v, funding_rate |-> f,
       basis_percent |-> b] :
        tr \in {"up", "down", "flat"}, v \in {-6, -5, 0, 5, 6},
        f \in -3..3, b \in {-11, -10, 0, 10, 11} }

CrowdingInit == args \in CrowdingInputs /\ result = NoResult

DetectCrowding ==
    /\ args.kind = "crowding"
    /\ result = NoResult
    /\ result' = [kind |-> "crowding",
                  value |-> detect(args.oi_trend, args.oi_velocity, args.funding_rate,
                                   args.basis_percent)]
    /\ UNCHANGED args
    /\ UNCHANGED exceptPure

\* ========================================================================
\* Specifications
\* ========================================================================
\* the parts that a specification does not exercise stay in their initial state
SnapshotIdle == raises = {} /\ has = {} /\ data = NoData /\ assembled = FALSE
CloseIdle == CloseInit
PureIdle == args = NoResult /\ result = NoResult

\* the engine processing events
Init == EngineInit /\ SessionInit /\ SnapshotIdle /\ CloseIdle /\ PureIdle
WithinEvents == counters.event_count < MaxEvents
Next ==
    \/ WithinEvents /\ \E e \in TradeEvents : ProcessTradeEvent(e)
    \/ WithinEvents /\ \E e \in BookEvents : ProcessOrderBookEvent(e)
    \/ GetStats
    \/ Tick
Spec == Init /\ [][Next]_vars

\* the engine handed every kind of event: trades and one-level books
\* stamped 0, among them a trade the engine rejects, market contexts, among
\* them one whose processing raises, and events of the kinds it ignores
CounterTrades == {e \in TradeEvents : e.time_ms = 0 /\ e.side = "B" /\ e.px \in {0, 100}}
CounterBooks == {e \in BookEvents : e.time_ms = 0 /\ Len(e.bids) <= 1 /\ Len(e.asks) = 1}
OtherKinds == {"bbo", "candle"}
NextCounters ==
    \/ WithinEvents /\ \E e \in CounterTrades : ProcessTradeEvent(e)
    \/ WithinEvents /\ \E e \in CounterBooks : ProcessOrderBookEvent(e)
    \/ WithinEvents /\ \E e \in MarketContexts : ProcessMarketContextEvent(e)
    \/ WithinEvents /\ \E kind \in OtherKinds : ProcessOtherEvent(kind)
    \/ Tick
SpecCounters == Init /\ [][NextCounters]_vars

\* one streaming session
SpecSession == Init /\ [][SessionNext]_vars

\* the engine started with the REST backfill, then fed live events: buys of
\* size 1 and the one-level books
BackfillTrades == {e \in TradeEvents : e.side = "B" /\ e.sz = 1 /\ e.px > 0}
BackfillBooks == {e \in BookEvents : Len(e.bids) = 1 /\ Len(e.asks) = 1 /\ e.bids[1].sz > 0}
NextBackfill ==
    \/ \E cs \in HistoricalCandles, r \in DailyRanges : Preload(cs, r)
    \/ WithinEvents /\ \E e \in BackfillTrades : ProcessTradeEvent(e)
    \/ WithinEvents /\ \E e \in BackfillBooks : ProcessOrderBookEvent(e)
    \/ Tick
SpecBackfill == Init /\ [][NextBackfill]_vars

\* the engine fed a burst of trades at price 100: sells of 3 000 USD at 0 s,
\* 4 s and 6 s, a buy of 3 000 USD, a sell of exactly the large-trade
\* threshold and a sell of more than five times the threshold
MaxCascadeTrades == 5
CascadeTrades ==
    { [time_ms |-> t, px |-> 100, sz |-> 30, side |-> "A"] : t \in {0, 4000, 6000} }
    \cup
    { [time_ms |-> 4000, px |-> 100, sz |-> 30, side |-> "B"],
      [time_ms |-> 4000, px |-> 100, sz |-> 100, side |-> "A"],
      [time_ms |-> 4000, px |-> 100, sz |-> 600, side |-> "A"] }
NextCascade ==
    \/ /\ counters.event_count < MaxCascadeTrades
       /\ \E e \in CascadeTrades : ProcessTradeEvent(e)
    \/ Tick
SpecCascade == Init /\ [][NextCascade]_vars

\* the engine fed order-book snapshots as the client parses them off the wire,
\* levels in wire order: a one-level book, a two-level book, a book with six
\* bid levels, a book whose bids arrive lowest first, a book whose best bid is
\* above its best ask, a book with two asks at one price, a book with a level
\* of size zero and a book with no asks
WireBooks ==
    { [time_ms |-> 0, bids |-> b, asks |-> a] :
        <<b, a>> \in
          { << <<[px |-> 100, sz |-> 1]>>, <<[px |-> 102, sz |-> 1]>> >>,
            << <<[px |-> 104, sz |-> 2], [px |-> 100, sz |-> 1]>>,
               <<[px |-> 108, sz |-> 1], [px |-> 110, sz |-> 3]>> >>,
            << [i \in 1..6 |-> [px |-> 100 - 2 * i, sz |-> 1]],
               <<[px |-> 102, sz |-> 7]>> >>,
            << <<[px |-> 100, sz |-> 1], [px |-> 104, sz |-> 2]>>,
               <<[px |-> 108, sz |-> 1]>> >>,
            << <<[px |-> 104, sz |-> 1]>>, <<[px |-> 102, sz |-> 1]>> >>,
            << <<[px |-> 100, sz |-> 1]>>,
               <<[px |-> 102, sz |-> 1], [px |-> 102, sz |-> 2]>> >>,
            << <<[px |-> 104, sz |-> 0], [px |-> 100, sz |-> 1]>>,
               <<[px |-> 106, sz |-> 1]>> >>,
            << <<[px |-> 100, sz |-> 1]>>, <<>> >> } }
NextBook ==
    \/ WithinEvents /\ \E e \in WireBooks : ProcessOrderBookEvent(e)
    \/ Tick
SpecBook == Init /\ [][NextBook]_vars

\* one streaming session whose threads and tasks keep running: the stream
\* thread is an OS thread, the two tasks are scheduled by the event loop
\* whenever they are ready.  Nothing obliges the consumer to disconnect.
StreamThread == StreamRecv \/ StreamLoopCheck \/ StreamFeedCheck \/ StreamParse \/ StreamExtend
IngestTask == IngestIter \/ IngestPop \/ IngestApply
EmitTask == EmitRead \/ EmitSend
SpecSessionLive ==
    /\ Init /\ [][SessionNext]_vars
    /\ WF_vars(StreamThread) /\ WF_vars(IngestTask) /\ WF_vars(EmitTask)

\* shutdown of one client and its transport
SpecClose == Init /\ [][CloseNext]_vars

\* shutdown with threads that keep running: the stream thread drives the
\* generator, and a thread that has entered close() runs it to its end.
\* Nothing obliges a caller to issue close() or the exchange to send messages.
StreamSide ==
    \/ GeneratorStart \/ GeneratorWhile \/ GeneratorGet \/ ClientLoopCheck
    \/ TransportCloseCheck("stream") \/ TransportCloseSet("stream")
    \/ TransportClosePut("stream") \/ TransportCloseDisconnect("stream")
LoopSide ==
    \/ ClientCloseCheck \/ ClientCloseSet
    \/ TransportCloseCheck("loop") \/ TransportCloseSet("loop")
    \/ TransportClosePut("loop") \/ TransportCloseDisconnect("loop")
SpecCloseLive ==
    /\ Init /\ [][CloseNext]_vars
    /\ WF_vars(StreamSide) /\ WF_vars(LoopSide) /\ WF_vars(CallbackPut)

\* the engine fed a burst of L2 snapshots that carry no asks (they are
\* counted and stored nowhere), more of them than message_timestamps holds;
\* the clock moves on only before the burst, after its first two events and
\* after its end
MaxRateEvents == 1001
RateBurstBreaks == {0, 2, MaxRateEvents}
RateClock == {0, 20000, 70000}
RateEvents == { [time_ms |-> 0, bids |-> <<[px |-> 100, sz |-> 1]>>, asks |-> <<>>] }
NextRate ==
    \/ /\ counters.event_count < MaxRateEvents
       /\ \E e \in RateEvents : ProcessOrderBookEvent(e)
    \/ /\ counters.event_count \in RateBurstBreaks
       /\ TickTo(RateClock)
SpecRate == Init /\ [][NextRate]_vars

\* the engine fed L2 snapshots, stored (both sides) or not (no asks), with
\* snapshots taken at any time; the clock passes 4.999 s, 5 s and 10 s
StatusClock == {0, 4999, 5000, 10000}
StatusBooks ==
    { [time_ms |-> 0, bids |-> <<[px |-> 100, sz |-> 1]>>, asks |-> a] :
        a \in { <<[px |-> 102, sz |-> 1]>>, <<>> } }
NextStatus ==
    \/ WithinEvents /\ \E e \in StatusBooks : ProcessOrderBookEvent(e)
    \/ TickTo(StatusClock)
    \/ \E r \in StatusRaises, h \in StatusInputs, n \in StatusTradeCounts :
          SnapshotStatus(r, h, n)
SpecStatus == Init /\ [][NextStatus]_vars

\* the volume updater running on its own
SpecVolume == Init /\ [][VolumeNext]_vars

\* the engine fed trades at 100 or 104 stamped 0 s, 1 s or the VWAP window
\* plus half a second, none ahead of the clock; the clock reaches the window
\* plus half a second, where a trade stamped 0 has left the window and one
\* stamped 1 s has not, and the window plus two seconds, where both have
VwapTrades ==
    { [time_ms |-> t, px |-> p, sz |-> 1, side |-> "B"] :
          t \in {0, 1000, VwapWindowMs + 500}, p \in {100, 104} }
VwapClock == {0, 1000, VwapWindowMs + 500, VwapWindowMs + 2000}
NextVwap ==
    \/ WithinEvents /\ \E e \in VwapTrades : e.time_ms <= now /\ ProcessTradeEvent(e)
    \/ TickTo(VwapClock)
    \/ SnapshotSessionContext
SpecVwap == Init /\ [][NextVwap]_vars

\* the engine fed L2 snapshots with a mid of 101 or 105 at three exchange
\* times, none ahead of the clock; the clock reaches 17 s and 20 s, where a
\* sample taken at 0 is retained (22 s) but lies outside the 5 s window, and
\* 23 s, where it is evicted
MomentumBooks ==
    { [time_ms |-> t, bids |-> <<[px |-> p, sz |-> 1]>>,
       asks |-> <<[px |-> p + 2, sz |-> 1]>>] : t \in {0, 17000, 20000}, p \in {100, 104} }
MomentumClock == {0, 17000, 20000, 23000}
NextMomentum ==
    \/ WithinEvents /\ \E e \in MomentumBooks : e.time_ms <= now /\ ProcessOrderBookEvent(e)
    \/ TickTo(MomentumClock)
    \/ SnapshotMomentum
SpecMomentum == Init /\ [][NextMomentum]_vars

\* the engine fed L2 snapshots whose five-level depth is the reference (100
\* USD of bids, 200 USD of asks) or 5, 15 or 30 percent below it, each side
\* by another amount, at two exchange times; the clock passes the 15 s
\* window and the 16.5 s retention of a snapshot taken at 0
DecaySizes == {<<20, 20>>, <<19, 17>>, <<17, 14>>, <<14, 19>>}
DecayBooks ==
    { [time_ms |-> t, bids |-> <<[px |-> 5, sz |-> ba[1]]>>,
       asks |-> <<[px |-> 10, sz |-> ba[2]]>>] : t \in {0, 10000}, ba \in DecaySizes }
DecayClock == {0, 15000, 16000, 17000}
NextDecay ==
    \/ WithinEvents /\ \E e \in DecayBooks : ProcessOrderBookEvent(e)
    \/ TickTo(DecayClock)
    \/ SnapshotDepthDecay
SpecDecay == Init /\ [][NextDecay]_vars

\* the engine preloaded at startup, fed trades and polled for snapshots.  The
\* backfill returns 16 candles five minutes apart (wide ranges first, narrow
\* ones later), or as many 1m candles as the history holds, or one more; the
\* trades fall into two later minutes, so that the second one finalizes a
\* flat candle; trades arrive after the ninth snapshot
SparseCandles ==
    [i \in 1..16 |->
        [timestamp_ms |-> (i - 1) * 5 * CandleMs, open |-> 100,
         high |-> IF i <= 8 THEN 104 ELSE 101, low |-> IF i <= 8 THEN 96 ELSE 99,
         close |-> 100, volume |-> 1, n_trades |-> 0]]
FullCandles(n) ==
    [i \in 1..n |->
        [timestamp_ms |-> (i - 1) * CandleMs, open |-> 100, high |-> 100 + (i % 3),
         low |-> 100 - (i % 2), close |-> 100, volume |-> 1, n_trades |-> 0]]
VolatilityHistories == {SparseCandles, FullCandles(MaxHistory), FullCandles(MaxHistory + 1)}
VolTradeTimes == {(MaxHistory + 5) * CandleMs, (MaxHistory + 10) * CandleMs}
VolTrades == {[time_ms |-> t, px |-> 100, sz |-> 1, side |-> "B"] : t \in VolTradeTimes}
SnapshotBreaks == {9}
NextVolatility ==
    \/ snapshots = 0 /\ \E cs \in VolatilityHistories : Preload(cs, <<>>)
    \/ WithinEvents /\ snapshots \in SnapshotBreaks /\ \E e \in VolTrades : ProcessTradeEvent(e)
    \/ SnapshotVolatility
SpecVolatility == Init /\ [][NextVolatility]_vars

\* one call of detect_market_regime
InitRegime == EngineInit /\ SessionInit /\ SnapshotIdle /\ CloseIdle /\ RegimeInit
RegimeNext == DetectMarketRegime
SpecRegime == InitRegime /\ [][RegimeNext]_vars

\* one call of estimate_buy or estimate_sell
InitSlippage == EngineInit /\ SessionInit /\ SnapshotIdle /\ CloseIdle /\ SlippageInit
SlippageNext == EstimateBuy \/ EstimateSell
SpecSlippage == InitSlippage /\ [][SlippageNext]_vars

\* one call of estimate_buy or estimate_sell on a book in small units
InitSlippageUnit == EngineInit /\ SessionInit /\ SnapshotIdle /\ CloseIdle /\ UnitSlippageInit
SpecSlippageUnit == InitSlippageUnit /\ [][SlippageNext]_vars

\* one call of _calculate_atr
InitAtr == EngineInit /\ SessionInit /\ SnapshotIdle /\ CloseIdle /\ AtrInit
AtrNext == CalculateAtr
SpecAtr == InitAtr /\ [][AtrNext]_vars

\* one call of calculate_metrics
InitMetrics == EngineInit /\ SessionInit /\ SnapshotIdle /\ CloseIdle /\ MetricsInit
MetricsNext == CalculateMetrics
SpecMetrics == InitMetrics /\ [][MetricsNext]_vars

\* one call of CrowdingDetector.detect
InitCrowding == EngineInit /\ SessionInit /\ SnapshotIdle /\ CloseIdle /\ CrowdingInit
CrowdingNext == DetectCrowding
SpecCrowding == InitCrowding /\ [][CrowdingNext]_vars

\* one call of get_analytics_data
SnapshotNext == GetAnalyticsData
InitSnapshot == EngineInit /\ SessionInit /\ SnapshotInit /\ CloseIdle /\ PureIdle
SpecSnapshot == InitSnapshot /\ [][SnapshotNext]_vars

\* ========================================================================
\* Properties
\* ========================================================================
\* the step hands an event to process_event
EventStep == counters'.event_count = counters.event_count + 1

\* the step processes a trade with price > 0 and size > 0
AcceptedTradeStep == EventStep /\ ev'.kind = "trade" /\ ev'.px > 0 /\ ev'.sz > 0

\* b is the start of the minute that contains t: the multiple of 60 000 with
\* b <= t < b + 60 000
InMinute(b, t) == b % 60000 = 0 /\ b <= t /\ t < b + 60000

\* s is a suffix of t
IsSuffix(s, t) ==
    Len(s) <= Len(t) /\ s = SubSeq(t, Len(t) - Len(s) + 1, Len(t))

\* C1: for every accepted trade, if its 1-minute bucket differs from the
\* bucket of the current accumulator, the accumulator's candle is pushed to
\* the 1m history with all its fields unchanged and a new accumulator is
\* started with open = close = high = low = price, volume = size, n_trades = 1;
\* otherwise the accumulator becomes high = max, low = min, close = price,
\* volume += size, n_trades += 1 and the history is left unchanged.  (The
\* first trade finds no accumulator: it starts one and pushes nothing.)
C1_CandleBuild ==
    [][AcceptedTradeStep =>
        LET t == ev'.time_ms
            p == ev'.px
            q == ev'.sz
            fresh == [bucket_ms |-> current_candle'.bucket_ms, open |-> p, high |-> p,
                      low |-> p, close |-> p, volume |-> q, trades |-> 1]
        IN  /\ InMinute(current_candle'.bucket_ms, t)
            /\ IF current_candle.bucket_ms = None
               THEN current_candle' = fresh /\ candles_1m' = candles_1m
               ELSE IF ~InMinute(current_candle.bucket_ms, t)
               THEN /\ current_candle' = fresh
                    /\ candles_1m' # <<>>
                    /\ Last(candles_1m') =
                           [timestamp_ms |-> current_candle.bucket_ms,
                            open |-> current_candle.open, high |-> current_candle.high,
                            low |-> current_candle.low, close |-> current_candle.close,
                            volume |-> current_candle.volume,
                            n_trades |-> current_candle.trades]
                    /\ IsSuffix(Front(candles_1m'), candles_1m)
                    /\ Len(candles_1m') >= Len(candles_1m)
               ELSE /\ current_candle'.bucket_ms = current_candle.bucket_ms
                    /\ current_candle'.open = current_candle.open
                    /\ current_candle'.high = Max(current_candle.high, p)
                    /\ current_candle'.low = Min(current_candle.low, p)
                    /\ current_candle'.close = p
                    /\ current_candle'.volume = current_candle.volume + q
                    /\ current_candle'.trades = current_candle.trades + 1
                    /\ candles_1m' = candles_1m
    ]_vars

\* a candle has been finalized and the next one has been updated by a second
\* trade at another price
C1_Witness ==
    /\ ev.kind = "trade" /\ ev.px > 0 /\ ev.sz > 0
    /\ Len(candles_1m) = 1
    /\ current_candle.trades = 2
    /\ current_candle.open # current_candle.close
    /\ current_candle.bucket_ms = 86400000 /\ ev.time_ms = 86459999

\* the last event was fed to the session tracker: an accepted trade
\* (add_trade) or a book with two valid sides (update_price with its mid)
SessionFed ==
    \/ ev.kind = "trade" /\ ev.px > 0 /\ ev.sz > 0
    \/ /\ ev.kind = "book"
       /\ \E i \in 1..Min(Len(ev.bids), 20) : ev.bids[i].px > 0 /\ ev.bids[i].sz > 0
       /\ \E i \in 1..Min(Len(ev.asks), 20) : ev.asks[i].px > 0 /\ ev.asks[i].sz > 0

\* C2: after the session tracker has processed an update with timestamp t from
\* either input stream (add_trade or update_price), t - session_start_ms is
\* less than the session duration.
C2_ResetOnEveryUpdate ==
    SessionFed => ev.time_ms - session_tracker.session_start_ms < 86400000

\* C3: when a trade with price p and timestamp t arrives with
\* t - session_start >= session_duration, then after add_trade
\* session_start = t and day_high = day_low = current_price = p, and the VWAP
\* queue is the old queue without a prefix of trades older than the VWAP
\* window of t, followed by the new trade: every queued trade that is inside
\* the window remains.
C3_ResetKeepsVwapQueue ==
    [][(/\ AcceptedTradeStep
        /\ session_tracker.session_start_ms # None
        /\ ev'.time_ms - session_tracker.session_start_ms >= 86400000) =>
        LET t == ev'.time_ms
            p == ev'.px
            old == session_tracker.trades
            new == session_tracker'.trades
            dropped == Len(old) - (Len(new) - 1)
        IN  /\ session_tracker'.session_start_ms = t
            /\ session_tracker'.daily_high = p
            /\ session_tracker'.daily_low = p
            /\ session_tracker'.current_price = p
            /\ new # <<>>
            /\ Last(new) = [timestamp_ms |-> t, price |-> p, size_usd |-> p * ev'.sz]
            /\ IsSuffix(Front(new), old)
            /\ \A i \in 1..Len(old) :
                  old[i].timestamp_ms >= t - 86400000 => i > dropped
    ]_vars

\* a trade at 86 459 999 has reset the session that started in the first
\* minute; the trade of 59 999 is still queued in front of it, the trade of 0
\* has left the VWAP window
C3_Witness ==
    /\ ev.kind = "trade" /\ ev.time_ms = 86459999
    /\ session_tracker.session_start_ms = 86459999
    /\ Len(session_tracker.trades) = 2
    /\ session_tracker.trades[1].timestamp_ms = 59999
    /\ Len(trade_tracker.trades) = 3
    /\ trade_tracker.trades[1].timestamp_ms = 0

\* the levels of an event side as stored levels
AsLevels(side) == [i \in 1..Len(side) |-> [price |-> side[i].px, size |-> side[i].sz]]

\* C4: after the engine processes any OrderBookSnapshot event, the stored
\* order book consists of exactly the bid and ask levels of that event
\* (events with an empty side included).
C4_ReplaceOnArrival ==
    ev.kind = "book" =>
        /\ orderbook.present
        /\ orderbook.bids = AsLevels(ev.bids)
        /\ orderbook.asks = AsLevels(ev.asks)
        /\ orderbook.timestamp_ms = ev.time_ms

\* C5: whenever add_trade or get_stats has just changed the trade-flow queue
\* at wall-clock time T, every stored trade has time_ms >= T - 900 000.
C5_QueueWithinHistory ==
    [][trade_tracker' # trade_tracker =>
        \A i \in 1..Len(trade_tracker'.trades) :
            trade_tracker'.trades[i].timestamp_ms >= now' - 900000
    ]_vars

\* C6: the timestamps of the stored trade queue are non-decreasing from head
\* to tail in every reachable state.
C6_QueueMonotone ==
    \A i, j \in 1..Len(trade_tracker.trades) :
        i < j => trade_tracker.trades[i].timestamp_ms <= trade_tracker.trades[j].timestamp_ms

\* C10: processing a TradeEvent with size 0 or price <= 0 leaves the
\* trade-flow queue, the liquidation detector, the session tracker, the
\* current 1m candle and the candle history exactly as they were.
C10_RejectedTradeFrame ==
    [][(EventStep /\ ev'.kind = "trade" /\ (ev'.sz = 0 \/ ev'.px <= 0)) =>
        /\ trade_tracker' = trade_tracker
        /\ liq_detector' = liq_detector
        /\ session_tracker' = session_tracker
        /\ current_candle' = current_candle
        /\ candles_1m' = candles_1m
    ]_vars

\* a trade of size 0 has been processed by an engine that holds a finalized
\* candle, an open candle, queued trades and a suspected liquidation
C10_Witness ==
    /\ ev.kind = "trade" /\ ev.sz = 0 /\ ev.px > 0
    /\ counters.event_count = 3
    /\ Len(trade_tracker.trades) = 2
    /\ Len(session_tracker.trades) = 2
    /\ Len(candles_1m) = 1
    /\ liq_detector.suspected_liquidations # <<>>

\* the wire numbers of the events handed to process_event, in order
ProcessedIds == [i \in 1..Len(processed) |-> processed[i].id]

\* C7: under every interleaving of the stream thread and the ingest task, the
\* events handed to process_event are events of messages the client accepted,
\* each at most once and in wire order (so trades of one batch keep their
\* order), and none is skipped: an accepted event that precedes a processed
\* one on the wire has been processed.
C7_TransportOrder ==
    /\ \A i, j \in 1..Len(processed) : i < j => ProcessedIds[i] < ProcessedIds[j]
    /\ \A i \in 1..Len(processed) : ProcessedIds[i] \in fed
    /\ \A x \in fed :
          (\E i \in 1..Len(processed) : ProcessedIds[i] > x) =>
              (\E j \in 1..Len(processed) : ProcessedIds[j] = x)

\* both trades of a two-trade message have been processed, after an earlier event
C7_Witness ==
    /\ msg.channel = "trades" /\ Len(msg.data) = 2
    /\ Len(processed) = 3
    /\ processed[2].id = msg.data[1].id
    /\ processed[3].id = msg.data[2].id

\* the events among the first k processed ones that update component c
AppliedAfter(k, c) ==
    LET touches(e) == \E i \in 1..Len(UpdatesOf(e.type)) : UpdatesOf(e.type)[i] = c
    IN  SelectSeq([i \in 1..k |-> processed[i]], touches)

\* C8: every snapshot assembled by the emit task is a coherent read: there is
\* a number k such that every component shows exactly the events among the
\* first k processed ones that concern it, and while get_analytics_data is
\* under way no event is half applied.
C8_CoherentSnapshot ==
    /\ emit_pc \in {"send", "sleep", "done"} =>
          \E k \in 0..Len(processed) :
              \A c \in Components :
                  snap[c] = [i \in 1..Len(AppliedAfter(k, c)) |-> AppliedAfter(k, c)[i].id]
    /\ (emit_pc = "read" /\ read_idx > 1) => in_hand = <<>>

\* a snapshot has been assembled after a trade and a book were processed,
\* while a further event waits in the buffer
C8_Witness ==
    /\ emit_pc = "send"
    /\ Len(snap["stats"]) = 2
    /\ snap["trade_flow"] # <<>>
    /\ snap["orderbook"] # <<>>
    /\ buffer # <<>>

\* C9: for every set of sections whose computation raises, every section
\* that does not raise appears exactly as it would with no failure at all,
\* and a section that raises appears as {"error": ...}.
C9_FailureIsolation ==
    assembled =>
        \A s \in SectionSet :
            IF s \in raises
            THEN data[s] \in {"error", "absent"}
            ELSE data[s] = get_analytics_data({}, has)[s]

\* C11: once the stream thread's connect_and_subscribe has ended, the session
\* is eventually torn down: the emit loop has stopped and the handler has
\* returned, which closes the channel to the consumer.
C11_TransportDeathTearsDown == (stream_pc = "done") ~> (emit_pc = "done")

\* C12: however close() calls and the generator's finally block interleave,
\* the websocket disconnect is invoked at most once and at most one sentinel
\* is put on the transport queue.
C12_CloseIdempotent == disconnects <= 1 /\ sentinels <= 1

SetMax(S) == CHOOSE x \in S : \A y \in S : y <= x
SetMin(S) == CHOOSE x \in S : \A y \in S : x <= y

SessionSet ==
    /\ session_tracker.session_start_ms # None
    /\ session_tracker.daily_high # None
    /\ session_tracker.daily_low # None
    /\ session_tracker.current_price # None

\* C13 as stated: whenever the session fields are set,
\* day_low <= current_price <= day_high, and day_high (day_low) is the
\* maximum (minimum) of the prices observed since session_start.
C13_SessionRange ==
    SessionSet =>
        /\ session_tracker.daily_low <= session_tracker.current_price
        /\ session_tracker.current_price <= session_tracker.daily_high
        /\ session_tracker.daily_high = SetMax(observed.prices)
        /\ session_tracker.daily_low = SetMin(observed.prices)

\* C13 amended: whenever the session fields are set,
\* day_low <= current_price <= day_high, and day_high (day_low) is the
\* maximum (minimum) of the prices observed since session_start together
\* with the daily high and low the startup backfill injected into this
\* session, if it did.
C13_SessionRangeSeeded ==
    SessionSet =>
        /\ session_tracker.daily_low <= session_tracker.current_price
        /\ session_tracker.current_price <= session_tracker.daily_high
        /\ session_tracker.daily_high = SetMax(observed.prices \cup observed.backfill)
        /\ session_tracker.daily_low = SetMin(observed.prices \cup observed.backfill)

\* the backfill injected a range, and a later trade of the same session went
\* above the injected high
C13_Witness ==
    /\ observed.backfill # {}
    /\ ev.kind = "trade"
    /\ session_tracker.daily_high = ev.px
    /\ \A x \in observed.backfill : x < ev.px

\* the OHLC ordering of a candle with n trades
WellFormedCandle(open, high, low, close, volume, n) ==
    /\ low <= Min(open, close)
    /\ Min(open, close) <= Max(open, close)
    /\ Max(open, close) <= high
    /\ volume >= 0
    /\ n >= 1

\* C14: the in-progress 1m candle and every candle finalized from the trade
\* stream satisfy low <= min(open, close) <= max(open, close) <= high,
\* volume >= 0 and n_trades >= 1.
C14_CandleWellFormed ==
    /\ current_candle.bucket_ms # None =>
          WellFormedCandle(current_candle.open, current_candle.high, current_candle.low,
                           current_candle.close, current_candle.volume,
                           current_candle.trades)
    /\ \A i \in 1..Len(candles_1m) :
          WellFormedCandle(candles_1m[i].open, candles_1m[i].high, candles_1m[i].low,
                           candles_1m[i].close, candles_1m[i].volume,
                           candles_1m[i].n_trades)

\* a candle built from two trades at different prices, the lower one last,
\* has been finalized and the next candle is in progress
C14_Witness ==
    /\ Len(candles_1m) = 1
    /\ candles_1m[1].n_trades = 2
    /\ candles_1m[1].low < candles_1m[1].high
    /\ candles_1m[1].close = candles_1m[1].low
    /\ current_candle.trades = 1

\* the 1m candles of history that fall into the M-minute bucket b, in order
GroupOf(history, M, b) ==
    SelectSeq(history, LAMBDA c : IntervalBucket(c.timestamp_ms, M) = b)

\* C15: for every M in {5, 15, 60}, get_candles returns one candle per
\* M-minute bucket of the 1m history: no two returned candles share a bucket,
\* every 1m candle's bucket is returned, and the candle of bucket b is built
\* from the group G of all 1m candles of b: timestamp and open of the first,
\* close of the last, the highest high, the lowest low, the sums of volume
\* and n_trades.
C15_AggregationPartition ==
    \A M \in {5, 15, 60} :
        LET R == get_candles(candles_1m, M, DefaultCount)
            B(i) == IntervalBucket(R[i].timestamp_ms, M)
        IN  /\ \A i, j \in 1..Len(R) : i # j => B(i) # B(j)
            /\ \A k \in 1..Len(candles_1m) :
                  \E i \in 1..Len(R) : B(i) = IntervalBucket(candles_1m[k].timestamp_ms, M)
            /\ \A i \in 1..Len(R) :
                  LET G == GroupOf(candles_1m, M, B(i))
                  IN  /\ R[i].timestamp_ms = G[1].timestamp_ms
                      /\ R[i].open = G[1].open
                      /\ R[i].close = G[Len(G)].close
                      /\ R[i].high = MaxHigh(G)
                      /\ R[i].low = MinLow(G)
                      /\ R[i].volume = SumVolume(G)
                      /\ R[i].n_trades = SumTrades(G)

\* the conditions of the six regime rules, in their order
RuleHolds(n, a) ==
    CASE n = 1 -> /\ a.liq_count >= 10
                  /\ 10 * a.short_liq_count > 15 * a.long_liq_count
                  /\ a.trend_regime = "up"
      [] n = 2 -> /\ a.liq_count >= 10
                  /\ 10 * a.long_liq_count > 15 * a.short_liq_count
                  /\ a.trend_regime = "down"
      [] n = 3 -> a.liq_count >= 10
      [] n = 4 -> /\ a.trend_strength > 6
                  /\ \/ a.trend_regime = "up" /\ a.buy_ratio > 6
                     \/ a.trend_regime = "down" /\ a.buy_ratio < 4
      [] n = 5 -> a.vol_regime = "high" /\ a.trend_regime = "range"
      [] n = 6 -> TRUE

RuleOutcome == <<"short_squeeze", "crash", "liquidation_event", "trend", "chop", "normal">>

LiquidatedSide(wire_side) == IF wire_side = "A" THEN "long" ELSE "short"

InCascadeWindow(log, s, t) ==
    SelectSeq(log, LAMBDA x : x.side = s /\ x.timestamp_ms >= t - 5000 /\ x.timestamp_ms <= t)

RECURSIVE SumNotionals(_)
SumNotionals(log) == IF log = <<>> THEN 0 ELSE log[1].size_usd + SumNotionals(Tail(log))

\* C18: whenever, right after a trade is added, the trailing 5 s ending at
\* that trade's timestamp contain at least 5 trades of its side whose
\* notionals sum to at least 10 000 USD, a suspected liquidation for that side
\* with confidence 0.7 and volume equal to that sum is emitted.
C18_CascadeLiquidation ==
    [][AcceptedTradeStep =>
        LET W == InCascadeWindow(trade_log', Last(trade_log').side, ev'.time_ms)
            liqs == liq_detector'.suspected_liquidations
        IN  (Len(W) >= 5 /\ SumNotionals(W) >= 10000) =>
                /\ liqs # <<>>
                /\ Last(liqs).timestamp_ms = ev'.time_ms
                /\ Last(liqs).side = LiquidatedSide(ev'.side)
                /\ Last(liqs).total_volume_usd = SumNotionals(W)
                /\ Last(liqs).confidence.num * 10 = Last(liqs).confidence.den * 7
    ]_vars

\* a step of process_event on an order-book snapshot
BookStep == ev'.kind = "book" /\ counters'.orderbook_updates # counters.orderbook_updates

\* C19: on an order-book update a price point is appended to the momentum
\* history, and the mid is pushed to the session tracker, if and only if the
\* mid of the new book differs from the mid of the previously stored book; an
\* update that leaves the mid unchanged leaves both trackers as they were.
C19_AppendIffMidChanged ==
    [][BookStep =>
        IF mid_price(orderbook') = mid_price(orderbook)
        THEN /\ momentum_tracker' = momentum_tracker
             /\ session_tracker' = session_tracker
        ELSE /\ momentum_tracker' =
                   Momentum_add_price(momentum_tracker, mid_price(orderbook'),
                                      ev'.time_ms, now)
             /\ session_tracker' =
                   Session_update_price(session_tracker, ev'.time_ms,
                                        mid_price(orderbook'))
    ]_vars

\* the number of levels the walk consumes: the shortest prefix whose
\* notionals cover the size, or the whole side
RECURSIVE ConsumedLevels(_, _)
ConsumedLevels(levels, remaining) ==
    IF levels = <<>> \/ remaining <= 0 THEN 0
    ELSE 1 + ConsumedLevels(Tail(levels), remaining - Head(levels).price * Head(levels).size)

FilledUsd(levels, size) == Min(size, SumNotional(levels))

\* p <= f <= q for a fraction f with a positive denominator
FracBetween(p, f, q) == p * f.den <= f.num /\ f.num <= q * f.den

RECURSIVE SumFills(_)
SumFills(fills) == IF fills = <<>> THEN 0 ELSE fills[1].fill_usd + SumFills(Tail(fills))

RECURSIVE SumFillNotional(_)
SumFillNotional(fills) ==
    IF fills = <<>> THEN 0
    ELSE fills[1].fill_usd * fills[1].price + SumFillNotional(Tail(fills))

LevelNotional(level) == level.price * level.size

\* C21: in every slippage computation over a non-empty side with requested
\* size S > 0, the per-level fills sum to min(S, total notional of the side),
\* every fill is between 0 and its level's notional, and the levels are
\* consumed in book order with none skipped: the i-th fill is taken from the
\* i-th level and every level before the last visited one is taken whole.
\* The filled amount and the notional reported by the estimate are those sums.
C21_DepthWalkConservation ==
    (result.kind = "slippage" /\ args.levels # <<>> /\ args.trade_size_usd > 0) =>
        LET fills == result.fills
            levels == args.levels
        IN  /\ SumFills(fills) = Min(args.trade_size_usd, SumNotional(levels))
            /\ Len(fills) <= Len(levels)
            /\ \A i \in 1..Len(fills) :
                  /\ fills[i].price = levels[i].price
                  /\ 0 <= fills[i].fill_usd
                  /\ fills[i].fill_usd <= LevelNotional(levels[i])
                  /\ i < Len(fills) => fills[i].fill_usd = LevelNotional(levels[i])
            /\ result.value.avg_fill_price.den = SumFills(fills)
            /\ result.value.avg_fill_price.num = SumFillNotional(fills)

\* a sell of 5 000 USD into three bid levels worth 4 679 USD in all: every
\* level is taken whole and the estimate is not feasible
C21_Witness ==
    /\ result.kind = "slippage" /\ args.side = "sell" /\ args.trade_size_usd = 5000
    /\ args.levels = <<[price |-> 102, size |-> 40], [price |-> 100, size |-> 5],
                       [price |-> 99, size |-> 1]>>
    /\ Len(result.fills) = 3
    /\ SumFills(result.fills) = 4679
    /\ ~result.value.is_feasible

\* the base quantity sum(fill_i / price_i) as a fraction over the product of
\* the prices
RECURSIVE SumQty(_)
SumQty(fills) ==
    IF fills = <<>> THEN [num |-> 0, den |-> 1]
    ELSE LET rest == SumQty(Tail(fills))
         IN  [num |-> fills[1].fill_usd * rest.den + rest.num * fills[1].price,
              den |-> fills[1].price * rest.den]

\* C22: in every slippage computation the reported avg_fill_price satisfies
\* sum(fill_i) / VWAP = sum(qty_i) with qty_i = fill_i / price_i, that is the
\* VWAP is the USD filled divided by the base quantity acquired; it is the
\* best price when nothing is filled.
C22_VwapIsUsdOverQuantity ==
    result.kind = "slippage" =>
        LET vwap == result.value.avg_fill_price
            filled == SumFills(result.fills)
            qty == SumQty(result.fills)
        IN  IF filled = 0
            THEN vwap.num = result.value.best_price * vwap.den
            ELSE filled * vwap.den * qty.den = qty.num * vwap.num

\* C23: every order book stored by the engine has bid prices strictly
\* decreasing, ask prices strictly increasing, all level sizes > 0, and
\* spread_bps >= 0 (best ask >= best bid).
C23_StoredBookWellFormed ==
    orderbook.present =>
        /\ \A i \in 1..(Len(orderbook.bids) - 1) :
              orderbook.bids[i].price > orderbook.bids[i + 1].price
        /\ \A i \in 1..(Len(orderbook.asks) - 1) :
              orderbook.asks[i].price < orderbook.asks[i + 1].price
        /\ \A i \in 1..Len(orderbook.bids) : orderbook.bids[i].size > 0
        /\ \A i \in 1..Len(orderbook.asks) : orderbook.asks[i].size > 0
        /\ OrderBook_spread_bps(orderbook).num >= 0
        /\ spread_absolute(orderbook) >= 0

\* -1 <= f <= 1 for a fraction f
InUnitRange(f) == f.den > 0 /\ -f.den <= f.num /\ f.num <= f.den

\* the book with its two sides exchanged
SwappedBook(book) == [book EXCEPT !.bids = book.asks, !.asks = book.bids]

\* depths the imbalance is tabulated for, zero included
ImbalanceDepths == {0, 1, 100, 308, 714}

\* C24: for every order book stored by the engine, l1_imbalance and
\* l5_imbalance lie in [-1, 1]; imbalance(b, a) = (b - a)/(b + a) when
\* b + a > 0 and 0 otherwise, and swapping the bid and ask depths negates the
\* result.
C24_ImbalanceBounded ==
    /\ orderbook.present =>
          /\ InUnitRange(l1_imbalance(orderbook))
          /\ InUnitRange(l5_imbalance(orderbook))
          /\ l1_imbalance(SwappedBook(orderbook)).num = -l1_imbalance(orderbook).num
          /\ l1_imbalance(SwappedBook(orderbook)).den = l1_imbalance(orderbook).den
          /\ l5_imbalance(SwappedBook(orderbook)).num = -l5_imbalance(orderbook).num
          /\ l5_imbalance(SwappedBook(orderbook)).den = l5_imbalance(orderbook).den
    /\ \A b \in ImbalanceDepths, a \in ImbalanceDepths :
          /\ InUnitRange(imbalance(b, a))
          /\ IF b + a > 0
             THEN imbalance(b, a).num * (b + a) = (b - a) * imbalance(b, a).den
             ELSE imbalance(b, a).num = 0
          /\ imbalance(a, b).num * imbalance(b, a).den =
                -imbalance(b, a).num * imbalance(a, b).den

\* the stored book has six bid levels (98 down to 88, size 1) against one ask
\* of 7 at 102: the L1 imbalance is (98 - 714)/812 and the L5 imbalance, over
\* the first five bids only, is (470 - 714)/1184
C24_Witness ==
    /\ orderbook.present
    /\ Len(orderbook.bids) = 6
    /\ l1_imbalance(orderbook) = [num |-> -616, den |-> 812]
    /\ l5_imbalance(orderbook) = [num |-> -244, den |-> 1184]

\* C25: when a periodic volume fetch fails (a request raises, or a response
\* is unusable or yields no volume), each of the three volume fields (24h, 1h,
\* 4h) keeps the value of the last successful fetch, and the fetch is
\* attempted again on the next tick of the updater loop: after every
\* iteration each field holds the volume of its last usable response, and
\* every iteration issues its requests.
C25_VolumeLastGoodRetained ==
    vol_ticks > 0 =>
        /\ hyperliquid_volume.h24 = last_good.h24
        /\ hyperliquid_volume.h1 = last_good.h1
        /\ hyperliquid_volume.h4 = last_good.h4
        /\ vol_ev.attempted

\* C26: in every snapshot, rate.messages_per_minute equals the number of
\* events passed to process_event during the last 60 s and
\* rate.messages_last_10s equals the number during the last 10 s, for any
\* event arrival rate.
C26_MessageRate ==
    LET rate == get_message_rate(message_timestamps, counters.event_count, now)
    IN  /\ rate.messages_per_minute =
              Cardinality({i \in 1..Len(event_times) : event_times[i] >= now - 60000})
        /\ rate.messages_last_10s =
              Cardinality({i \in 1..Len(event_times) : event_times[i] >= now - 10000})

\* a step that takes a snapshot's system status
StatusStep == result'.kind = "system_status" /\ result' # result

HistoriesBounded ==
    /\ Len(candles_1m) <= MaxHistory
    /\ Len(volatility_tracker.atr_1m_history) <= HistoryWindow
    /\ Len(volatility_tracker.atr_5m_history) <= HistoryWindow

\* a step that changes a full candle history shifts it by one candle
FullHistoryShifts ==
    (Len(candles_1m) = MaxHistory /\ candles_1m' # candles_1m) =>
        /\ Len(candles_1m') = MaxHistory
        /\ SubSeq(candles_1m', 1, MaxHistory - 1) = Tail(candles_1m)

\* C28: in every reachable state the 1m candle history holds at most 500
\* candles and each of the two ATR histories of the volatility tracker holds
\* at most history_window (100) values; a candle appended to a full history
\* drops the oldest one, candles seeded by the startup preload included.
C28_HistoriesBounded == []HistoriesBounded /\ [][FullHistoryShifts]_vars

\* a backfilled history that was full has lost its oldest candle to a candle
\* built from live trades, and more snapshots than the window holds have
\* been taken with both ATR histories full
C28_Witness ==
    /\ Len(candles_1m) = MaxHistory
    /\ candles_1m[1].n_trades = 0 /\ candles_1m[1].timestamp_ms > 0
    /\ candles_1m[MaxHistory].n_trades > 0
    /\ snapshots > HistoryWindow
    /\ Len(volatility_tracker.atr_1m_history) = HistoryWindow
    /\ Len(volatility_tracker.atr_5m_history) = HistoryWindow

\* ------------------------------------------------------------------------
\* a step of get_analytics_data
SnapshotStep == snapshots' = snapshots + 1

\* equal fractions
FracEq(a, b) == a.num * b.den = b.num * a.den

\* two volatility sections that show the same values
SameVolatility(a, b) ==
    /\ a.present = b.present
    /\ a.present =>
          /\ FracEq(a.atr_1m, b.atr_1m) /\ FracEq(a.atr_5m, b.atr_5m)
          /\ a.regime = b.regime /\ FracEq(a.percentile, b.percentile)

\* the snapshot before this one saw the same events, clock and candles
SnapshotRepeated ==
    /\ result.kind = "analytics"
    /\ result.event_count = counters.event_count
    /\ result.now = now
    /\ result.n_candles = Len(candles_1m)

\* a snapshot only evicts: every queue of a tracker is left as a suffix of
\* itself and everything else recorded is left as it was
SnapshotOnlyEvicts ==
    /\ IsSuffix(trade_tracker'.trades, trade_tracker.trades)
    /\ IsSuffix(momentum_tracker'.price_history, momentum_tracker.price_history)
    /\ IsSuffix(depth_tracker'.snapshots, depth_tracker.snapshots)
    /\ IsSuffix(liq_detector'.recent_trades, liq_detector.recent_trades)
    /\ IsSuffix(liq_detector'.suspected_liquidations, liq_detector.suspected_liquidations)
    /\ UNCHANGED <<session_tracker, current_candle, candles_1m, orderbook, counters>>

\* C29: assembling a snapshot is a read of component state: a call of
\* get_analytics_data leaves every tracker's recorded history unchanged
\* except for the eviction of expired entries, so a snapshot taken right
\* after another one, with no event in between, shows the same analytics.
C29_SnapshotIsRead ==
    [][SnapshotStep =>
          /\ SnapshotOnlyEvicts
          /\ volatility_tracker' = volatility_tracker
          /\ SnapshotRepeated => SameVolatility(result'.value, result.value)]_vars

\* ------------------------------------------------------------------------
\* TR_i = max(H_i - L_i, |H_i - C_(i-1)|, |L_i - C_(i-1)|), for i >= 2
ClaimTR(cs, i) ==
    LET hl == cs[i].high - cs[i].low
        hc == IF cs[i].high >= cs[i - 1].close THEN cs[i].high - cs[i - 1].close
              ELSE cs[i - 1].close - cs[i].high
        lc == IF cs[i].low >= cs[i - 1].close THEN cs[i].low - cs[i - 1].close
              ELSE cs[i - 1].close - cs[i].low
    IN  IF hl >= hc /\ hl >= lc THEN hl ELSE IF hc >= lc THEN hc ELSE lc

\* TR_from + ... + TR_to
RECURSIVE SumTR(_, _, _)
SumTR(cs, from, to) == IF from > to THEN 0 ELSE ClaimTR(cs, from) + SumTR(cs, from + 1, to)

\* C30: ATR(14) over a candle list: with fewer than 2 candles the ATR is 0;
\* with at least 2 but fewer than 15 candles it is the mean of all available
\* true ranges; with 15 or more candles it is the mean of the last 14 true
\* ranges, where TR_i = max(H_i - L_i, |H_i - C_(i-1)|, |L_i - C_(i-1)|).
C30_AtrByCandleCount ==
    result.kind = "atr" =>
        LET cs == args.candles
            n == Len(cs)
            atr == result.value
        IN  /\ atr.den > 0
            /\ n < 2 => atr.num = 0
            /\ (2 <= n /\ n < AtrPeriod + 1) => atr.num * (n - 1) = SumTR(cs, 2, n) * atr.den
            /\ n >= AtrPeriod + 1 =>
                  atr.num * AtrPeriod = SumTR(cs, n - AtrPeriod + 1, n) * atr.den

\* ------------------------------------------------------------------------
\* the number of values of h that are <= current
RankIn(h, current) ==
    Cardinality({i \in 1..Len(h) : h[i].num * current.den <= current.num * h[i].den})

ClaimedStatus(reference, current) ==
    LET gone == (reference - current) * 100
    IN  IF gone >= 30 * reference THEN "Critical"
        ELSE IF gone >= 15 * reference THEN "High"
        ELSE IF gone >= 5 * reference THEN "Medium"
        ELSE "OK"

\* nothing has happened since the snapshot held in result was taken
SnapshotCurrent == result.event_count = counters.event_count /\ result.now = now

\* C32: the depth-decay status of each side follows the thresholds
\* OK < 5 <= Medium < 15 <= High < 30 <= Critical (a decay of exactly 5 is
\* Medium, exactly 15 is High, exactly 30 is Critical), where the decay is
\* (ref - current) / ref * 100 and ref is the oldest retained snapshot with
\* time >= now - W * 1000.
C32_DecayStatusThresholds ==
    (result.kind = "depth_decay" /\ result.value.present /\ SnapshotCurrent) =>
        LET snaps == depth_tracker.snapshots
            v == result.value
        IN  \E i \in 1..Len(snaps) :
                /\ snaps[i].timestamp_ms >= now - DepthWindowMs
                /\ \A j \in 1..(i - 1) : snaps[j].timestamp_ms < now - DepthWindowMs
                /\ v.reference_bid_depth = snaps[i].bid_depth_usd
                /\ v.reference_ask_depth = snaps[i].ask_depth_usd
                /\ v.reference_bid_depth > 0 /\ v.reference_ask_depth > 0
                /\ v.bid_decay_percent.num * v.reference_bid_depth =
                      (v.reference_bid_depth - v.current_bid_depth) * 100 * v.bid_decay_percent.den
                /\ v.ask_decay_percent.num * v.reference_ask_depth =
                      (v.reference_ask_depth - v.current_ask_depth) * 100 * v.ask_decay_percent.den
                /\ v.bid_status = ClaimedStatus(v.reference_bid_depth, v.current_bid_depth)
                /\ v.ask_status = ClaimedStatus(v.reference_ask_depth, v.current_ask_depth)

\* ------------------------------------------------------------------------
\* the samples of the history inside the window [now - window_ms, now] span
\* at least half the window
WindowSpanCovers(history, window_ms) ==
    \E i, j \in 1..Len(history) :
        /\ history[i].timestamp_ms >= now - window_ms /\ history[i].timestamp_ms <= now
        /\ history[j].timestamp_ms >= now - window_ms /\ history[j].timestamp_ms <= now
        /\ (history[j].timestamp_ms - history[i].timestamp_ms) * 2 >= window_ms

\* C33: for every momentum query with window W, is_usable is true if and
\* only if the time span between the oldest and the latest price sample
\* inside the window [now - W * 1000, now] is at least 50% of W; samples
\* retained in the history but older than the window do not count.
C33_UsableIffWindowCovered ==
    (result.kind = "momentum" /\ SnapshotCurrent) =>
        /\ result.short.present =>
              (result.short.is_usable <=>
                  WindowSpanCovers(momentum_tracker.price_history, ShortWindowMs))
        /\ result.long.present =>
              (result.long.is_usable <=>
                  WindowSpanCovers(momentum_tracker.price_history, LongWindowMs))

\* ------------------------------------------------------------------------
\* the trades of the queue stamped inside the VWAP window that ends at now
WindowTrades(trades) ==
    SelectSeq(trades, LAMBDA t : t.timestamp_ms >= now - VwapWindowMs)

\* C34: at every get_context call made at time T, session_vwap equals
\* sum(price * notional) / sum(notional) over exactly the trades whose
\* timestamp is at least T - vwap_window_s; no trade older than the window
\* contributes, also when no trade has arrived since it expired. (Without a
\* trade in the window the value is the current price.)
C34_VwapOverWindowOnly ==
    (result.kind = "session_context" /\ SnapshotCurrent /\ result.value.present) =>
        LET inside == WindowTrades(session_tracker.trades)
        IN  IF inside = <<>>
            THEN FracEq(result.value.session_vwap,
                        [num |-> session_tracker.current_price, den |-> 1])
            ELSE FracEq(result.value.session_vwap,
                        [num |-> VwapNotional(inside), den |-> VwapVolume(inside)])

\* ------------------------------------------------------------------------
\* 1 when the condition holds, 0 otherwise
Indicator(b) == IF b THEN 1 ELSE 0

\* the two scores as the weighted sums of indicators, in hundredths
ClaimedLongScore(a) ==
    30 * Indicator(a.oi_trend = "up")
    + 20 * Indicator(Abs(a.oi_velocity) > oi_velocity_high_threshold)
    + 30 * Indicator(a.funding_rate > funding_bullish_threshold)
    + 10 * Indicator(a.funding_rate > 2 * funding_bullish_threshold)
    + 20 * Indicator(a.basis_percent > basis_rich_threshold)
ClaimedShortScore(a) ==
    30 * Indicator(a.oi_trend = "up")
    + 20 * Indicator(Abs(a.oi_velocity) > oi_velocity_high_threshold)
    + 30 * Indicator(a.funding_rate < funding_bearish_threshold)
    + 10 * Indicator(a.funding_rate < 2 * funding_bearish_threshold)
    + 20 * Indicator(a.basis_percent < basis_cheap_threshold)

C36_HistoryStrictlyIncreasing ==
    /\ \A i, j \in 1..Len(candles_1m) :
          i < j => /\ CandleBucket(candles_1m[i].timestamp_ms)
                        # CandleBucket(candles_1m[j].timestamp_ms)
                   /\ candles_1m[i].timestamp_ms < candles_1m[j].timestamp_ms
    /\ current_candle.bucket_ms # None =>
          \A i \in 1..Len(candles_1m) :
              CandleBucket(candles_1m[i].timestamp_ms) < current_candle.bucket_ms

\* ------------------------------------------------------------------------
\* C37: each call of LiquidationsDetector.add_trade appends at most one
\* suspected liquidation: when the trade is itself large the large-trade
\* event is recorded and no additional cascade event is recorded for the same
\* trade, and a trade that is neither large nor completing a cascade appends
\* nothing. (What the call's cleanup evicts from the front is set aside.)
C37_AtMostOneLiquidation ==
    [][AcceptedTradeStep =>
        LET kept == PopleftWhileOld(liq_detector.suspected_liquidations,
                                    now - LiqMaxHistoryMs)
            new == liq_detector'.suspected_liquidations
            large == ev'.px * ev'.sz >= 10000
            cascade == Liq_detect_cascade(liq_detector', ev'.time_ms,
                                          IF ev'.side = "B" THEN "buy" ELSE "sell")
        IN  /\ Len(new) <= Len(kept) + 1
            /\ SubSeq(new, 1, Len(kept)) = kept
            /\ large => /\ Len(new) = Len(kept) + 1
                        /\ Last(new).reason = "large"
            /\ (~large /\ ~cascade) => new = kept
    ]_vars

\* a sell of 10 000 USD that is the fifth sell inside five seconds has been
\* recorded once, as a large trade
C37_Witness ==
    /\ ev.kind = "trade" /\ ev.side = "A" /\ ev.px * ev.sz = 10000
    /\ Liq_detect_cascade(liq_detector, ev.time_ms, "sell")
    /\ Len(liq_detector.suspected_liquidations) = 1
    /\ Last(liq_detector.suspected_liquidations).reason = "large"
    /\ Last(liq_detector.suspected_liquidations).timestamp_ms = ev.time_ms

\* ------------------------------------------------------------------------
\* a step of process_event
ProcessEventStep == event_times' # event_times

KindCounters == {"orderbook_updates", "trade_events", "market_context_updates"}

\* by how much a counter grows in a step
Growth(k) == counters'[k] - counters[k]

\* the event handed over is of a kind the engine ignores, or its processing
\* raised
IgnoredOrRaised == ev'.kind \in OtherKinds \/ (ev'.kind = "context" /\ ev'.px = None)

\* C38: in every reachable engine state the counters satisfy events >=
\* orderbook_updates + trade_events + market_context_updates; process_event
\* increases events by exactly one per call and increases at most one of the
\* three per-kind counters by exactly one, events of other kinds (Bbo,
\* CandleEvent) or events whose processing raised increase only events, and
\* no counter ever decreases.
C38_CountersConsistent ==
    /\ [](counters.event_count >= counters.orderbook_updates + counters.trade_events
                                      + counters.market_context_updates)
    /\ [][/\ \A k \in KindCounters \cup {"event_count"} : Growth(k) >= 0
          /\ IF ProcessEventStep
             THEN /\ Growth("event_count") = 1
                  /\ \A k \in KindCounters : Growth(k) \in {0, 1}
                  /\ Cardinality({k \in KindCounters : Growth(k) = 1}) <= 1
                  /\ IgnoredOrRaised => \A k \in KindCounters : Growth(k) = 0
             ELSE counters' = counters
       ]_vars

\* three events have been handed over, the last a market context whose
\* processing raised, and only one of them reached a per-kind counter
C38_Witness ==
    /\ counters.event_count = 3
    /\ ev.kind = "context" /\ ev.px = None
    /\ counters.trade_events = 1
    /\ counters.orderbook_updates = 0
    /\ counters.market_context_updates = 0

\* ------------------------------------------------------------------------
\* C39: once HyperliquidClient.close() has returned, no event is ever
\* appended to the client's buffer again, under every interleaving of close()
\* with a feed_raw_message call running on the stream thread; events buffered
\* before the close remain in the buffer for iter_events.
C39_NoAppendAfterClose ==
    [][(closed /\ emit_pc = "done") =>
          /\ Len(buffer') <= Len(buffer)
          /\ \A i \in 1..Len(buffer') : buffer'[i] \in {buffer[j] : j \in 1..Len(buffer)}
    ]_vars

\* ------------------------------------------------------------------------
\* the numbers of the messages on the transport queue
QueuedIds == {queued[i].id : i \in {j \in 1..Len(queued) : ~queued[j].sentinel}}

\* none of the given messages is on its way to the queue, on it, or yielded
Dropped(S) ==
    \A n \in S : /\ n \notin QueuedIds
                 /\ n \notin yielded
                 /\ ~(cb_pc = "put" /\ cb_msg = n)

\* C40 as stated: after HyperliquidSdkTransport.close() is called, a consumer
\* iterating connect_and_subscribe, including one blocked waiting on the
\* empty queue, eventually terminates its iteration, and no message received
\* by a subscription callback after the close is enqueued or yielded.
C40_CloseEndsIterationAsStated ==
    /\ CloseCalled ~> (close_pc["stream"] = "done")
    /\ []Dropped(after_call)

\* C40: after HyperliquidSdkTransport.close() is called, a consumer iterating
\* connect_and_subscribe, including one blocked waiting on the empty queue,
\* eventually terminates its iteration, and no message received by a
\* subscription callback once close() has set _closed is enqueued or yielded.
C40_CloseEndsIteration ==
    /\ CloseCalled ~> (close_pc["stream"] = "done")
    /\ []Dropped(late)

\* the consumer has ended without having yielded anything, the sentinel is
\* consumed, and a message handed to the callback after _closed was set has
\* been dropped
C40_Witness ==
    /\ close_pc["stream"] = "done"
    /\ sentinels = 1 /\ queued = <<>>
    /\ yielded = {}
    /\ late # {}

====
